---------------------------- MODULE Spec2Model ----------------------------
(***************************************************************************)
(* component-rpc: the JSON <-> component-model Val codec.                  *)
(*                                                                         *)
(*   json_to_val      src/src/lib.rs        tree decoder                   *)
(*   val_to_json      src/src/lib.rs        encoder                        *)
(*   ValSerialize     src/src/serde/ser.rs  encoder driven by a Serializer *)
(*   deserialize_val  src/src/serde/de.rs   streaming (visitor) decoder    *)
(*   default_val      src/src/type_ext.rs   default value of a descriptor  *)
(*   call             src/src/bin/component-rpc-server.rs   POST /call     *)
(*                                                                         *)
(* The codec is a family of pure functions.  They are operators here; the  *)
(* state machine Spec draws a type descriptor and an input (a Val or a     *)
(* JSON node) and applies them.  VisitorSpec hands the visitor float       *)
(* tokens of either width.  ServerSpec draws a request (req) and runs the  *)
(* handler, which leaves its response in resp.                             *)
(*                                                                         *)
(* Representation.                                                         *)
(*   integer     a bit pattern, four 16-bit limbs <<l3, l2, l1, l0>>, most *)
(*               significant first; a narrower width leaves the upper      *)
(*               bits zero (u8 200 is <<0,0,0,200>>, i8 -1 is <<0,0,0,255>>)*)
(*   f32         [s, e, m]       sign, 8-bit exponent, 23-bit fraction     *)
(*   f64         [s, e, hi, lo]  sign, 11-bit exponent, fraction as its    *)
(*               upper 23 and lower 29 bits                                *)
(*   Option<X>   a sequence of length 0 or 1                               *)
(*   JSON        [k |-> "null"], [k |-> "bool", b], [k |-> "int", neg,     *)
(*               bits] (serde_json's N::PosInt(u64) / N::NegInt(i64)),     *)
(*               [k |-> "float", f], [k |-> "str", s], [k |-> "arr", a],   *)
(*               [k |-> "obj", o]: o the entries <<key, value>>, keys      *)
(*               distinct                                                  *)
(*   Type        [t |-> "U8"], [t |-> "List", elem], [t |-> "Record",      *)
(*               fields], ...                                              *)
(*   Val         [t |-> "U8", i], [t |-> "List", ty, vs], ...              *)
(***************************************************************************)
EXTENDS Integers, Sequences, FiniteSets, TLC

VARIABLES ty, val, json, enc, ser, res, req, resp

vars == <<ty, val, json, enc, ser, res, req, resp>>

(***************************************************************************)
(* Fixed-width integers                                                    *)
(***************************************************************************)

UnsignedTys == {"U8", "U16", "U32", "U64"}
SignedTys == {"S8", "S16", "S32", "S64"}
IntTys == UnsignedTys \cup SignedTys

Width(t) ==
  CASE t \in {"U8", "S8"} -> 8
    [] t \in {"U16", "S16"} -> 16
    [] t \in {"U32", "S32"} -> 32
    [] t \in {"U64", "S64"} -> 64

Limb(n) == n % 65536

\* The sign bit of a w-bit pattern.
SignBit(w, bits) ==
  CASE w = 8 -> bits[4] >= 128
    [] w = 16 -> bits[4] >= 32768
    [] w = 32 -> bits[3] >= 32768
    [] w = 64 -> bits[1] >= 32768

\* `v as i64` of a signed w-bit v: sign extension.
SignExtend(w, bits) ==
  IF ~SignBit(w, bits) THEN bits
  ELSE CASE w = 8 -> <<65535, 65535, 65535, 65280 + bits[4]>>
         [] w = 16 -> <<65535, 65535, 65535, bits[4]>>
         [] w = 32 -> <<65535, 65535, bits[3], bits[4]>>
         [] w = 64 -> bits

\* `v as u64` of an unsigned w-bit v: zero extension (the upper limbs of a
\* narrow pattern are zero already).
ZeroExtend(w, bits) == bits

\* `v as iN` / `v as uN` of a 64-bit v: the low w bits.
Truncate(w, bits) ==
  CASE w = 8 -> <<0, 0, 0, bits[4] % 256>>
    [] w = 16 -> <<0, 0, 0, bits[4]>>
    [] w = 32 -> <<0, 0, bits[3], bits[4]>>
    [] w = 64 -> bits

\* Two's complement negation of a 64-bit pattern.
Negate64(bits) ==
  LET i0 == (65535 - bits[4]) + 1
      i1 == (65535 - bits[3]) + (i0 \div 65536)
      i2 == (65535 - bits[2]) + (i1 \div 65536)
      i3 == (65535 - bits[1]) + (i2 \div 65536)
  IN <<Limb(i3), Limb(i2), Limb(i1), Limb(i0)>>

\* Unsigned comparison of two patterns.
MagLT(a, b) ==
  \E i \in 1..4 : a[i] < b[i] /\ \A j \in 1..(i - 1) : a[j] = b[j]

MagLE(a, b) == a = b \/ MagLT(a, b)

\* A mathematical integer: sign and magnitude.  Zero is never negative.
Math(neg, mag) == [neg |-> neg /\ mag # <<0, 0, 0, 0>>, mag |-> mag]

MathU64(bits) == Math(FALSE, bits)

MathI64(bits) ==
  IF SignBit(64, bits) THEN Math(TRUE, Negate64(bits)) ELSE Math(FALSE, bits)

MathLE(x, y) ==
  CASE x.neg /\ ~y.neg -> TRUE
    [] ~x.neg /\ y.neg -> FALSE
    [] ~x.neg /\ ~y.neg -> MagLE(x.mag, y.mag)
    [] x.neg /\ y.neg -> MagLE(y.mag, x.mag)

\* uN::MAX, iN::MAX, iN::MIN as mathematical integers.
MaxOf(t) ==
  CASE t = "U8" -> Math(FALSE, <<0, 0, 0, 255>>)
    [] t = "U16" -> Math(FALSE, <<0, 0, 0, 65535>>)
    [] t = "U32" -> Math(FALSE, <<0, 0, 65535, 65535>>)
    [] t = "U64" -> Math(FALSE, <<65535, 65535, 65535, 65535>>)
    [] t = "S8" -> Math(FALSE, <<0, 0, 0, 127>>)
    [] t = "S16" -> Math(FALSE, <<0, 0, 0, 32767>>)
    [] t = "S32" -> Math(FALSE, <<0, 0, 32767, 65535>>)
    [] t = "S64" -> Math(FALSE, <<32767, 65535, 65535, 65535>>)

MinOf(t) ==
  CASE t \in UnsignedTys -> Math(FALSE, <<0, 0, 0, 0>>)
    [] t = "S8" -> Math(TRUE, <<0, 0, 0, 128>>)
    [] t = "S16" -> Math(TRUE, <<0, 0, 0, 32768>>)
    [] t = "S32" -> Math(TRUE, <<0, 0, 32768, 0>>)
    [] t = "S64" -> Math(TRUE, <<32768, 0, 0, 0>>)

\* The mathematical value an integer Val of type t holds.
MathOfInt(t, bits) ==
  IF t \in SignedTys /\ SignBit(Width(t), bits)
  THEN Math(TRUE, Truncate(Width(t), Negate64(bits)))
  ELSE Math(FALSE, bits)

(***************************************************************************)
(* Floats                                                                  *)
(***************************************************************************)

F32_NAN == [s |-> 0, e |-> 255, m |-> 2^22]
F32_INFINITY == [s |-> 0, e |-> 255, m |-> 0]
F32_NEG_INFINITY == [s |-> 1, e |-> 255, m |-> 0]

F64_NAN == [s |-> 0, e |-> 2047, hi |-> 2^22, lo |-> 0]
F64_INFINITY == [s |-> 0, e |-> 2047, hi |-> 0, lo |-> 0]
F64_NEG_INFINITY == [s |-> 1, e |-> 2047, hi |-> 0, lo |-> 0]

f32_is_nan(f) == f.e = 255 /\ f.m # 0
f32_is_infinite(f) == f.e = 255 /\ f.m = 0
f32_is_finite(f) == f.e # 255

f64_is_nan(f) == f.e = 2047 /\ (f.hi # 0 \/ f.lo # 0)
f64_is_infinite(f) == f.e = 2047 /\ f.hi = 0 /\ f.lo = 0
f64_is_finite(f) == f.e # 2047

is_sign_negative(f) == f.s = 1
is_sign_positive(f) == f.s = 0

\* The position of the highest set bit of n > 0.
HighBit(n) == CHOOSE k \in 0..29 : 2^k <= n /\ n < 2^(k + 1)

\* `f as f64`: exact; a NaN keeps its sign and payload and is quieted.
f32_to_f64(f) ==
  CASE f.e = 255 /\ f.m = 0 -> [s |-> f.s, e |-> 2047, hi |-> 0, lo |-> 0]
    [] f.e = 255 /\ f.m # 0 ->
         [s |-> f.s, e |-> 2047,
          hi |-> IF f.m >= 2^22 THEN f.m ELSE f.m + 2^22, lo |-> 0]
    [] f.e = 0 /\ f.m = 0 -> [s |-> f.s, e |-> 0, hi |-> 0, lo |-> 0]
    [] f.e = 0 /\ f.m # 0 ->
         LET k == HighBit(f.m)
         IN [s |-> f.s, e |-> 874 + k, hi |-> (f.m - 2^k) * 2^(23 - k), lo |-> 0]
    [] OTHER -> [s |-> f.s, e |-> f.e + 896, hi |-> f.m, lo |-> 0]

\* `d as f32`: round to nearest, ties to even; overflow gives an infinity.
f64_to_f32(d) ==
  LET E == d.e - 1023
  IN CASE d.e = 2047 /\ d.hi = 0 /\ d.lo = 0 -> [s |-> d.s, e |-> 255, m |-> 0]
       [] d.e = 2047 ->
            [s |-> d.s, e |-> 255, m |-> IF d.hi >= 2^22 THEN d.hi ELSE d.hi + 2^22]
       [] d.e = 0 -> [s |-> d.s, e |-> 0, m |-> 0]
       [] d.e \in 1..2046 /\ E > 127 -> [s |-> d.s, e |-> 255, m |-> 0]
       [] d.e \in 1..2046 /\ E < -150 -> [s |-> d.s, e |-> 0, m |-> 0]
       [] d.e \in 1..2046 /\ E >= -126 /\ E <= 127 ->
            LET up == d.lo > 2^28 \/ (d.lo = 2^28 /\ d.hi % 2 = 1)
                m1 == d.hi + (IF up THEN 1 ELSE 0)
            IN IF m1 = 2^23 THEN [s |-> d.s, e |-> E + 128, m |-> 0]
               ELSE [s |-> d.s, e |-> E + 127, m |-> m1]
       [] OTHER ->
            LET shift == (-126) - E
                sig == 2^23 + d.hi
                q == sig \div 2^shift
                r == sig % 2^shift
                half == 2^(shift - 1)
                up == r > half \/ (r = half /\ (d.lo > 0 \/ q % 2 = 1))
                m1 == q + (IF up THEN 1 ELSE 0)
            IN IF m1 = 2^23 THEN [s |-> d.s, e |-> 1, m |-> 0]
               ELSE [s |-> d.s, e |-> 0, m |-> m1]

\* Bit j (0 = least significant) of a 64-bit magnitude; 0 below bit 0.
BitAt(mag, j) ==
  IF j < 0 THEN 0 ELSE (mag[4 - (j \div 16)] \div 2^(j % 16)) % 2

\* The bits hi..lo of mag (positions may run below 0) as a number.
RECURSIVE BitField(_, _, _)
BitField(mag, hi, lo) ==
  IF hi < lo THEN 0 ELSE 2 * BitField(mag, hi, lo + 1) + BitAt(mag, lo)

\* mag > 0 as sign 0 float fields: top bit K, fraction bits below it, rounded
\* to nearest, ties to even.
TopBit(mag) == CHOOSE k \in 0..63 : BitAt(mag, k) = 1 /\ \A j \in (k + 1)..63 : BitAt(mag, j) = 0

Sticky(mag, below) == \E j \in 0..63 : j < below /\ BitAt(mag, j) = 1

\* `v as f32` of an integer with the given sign and magnitude.
int_to_f32(neg, mag) ==
  IF mag = <<0, 0, 0, 0>> THEN [s |-> 0, e |-> 0, m |-> 0]
  ELSE LET K == TopBit(mag)
           m0 == BitField(mag, K - 1, K - 23)
           up == BitAt(mag, K - 24) = 1 /\ (Sticky(mag, K - 24) \/ m0 % 2 = 1)
           m1 == m0 + (IF up THEN 1 ELSE 0)
           s == IF neg THEN 1 ELSE 0
       IN IF m1 = 2^23 THEN [s |-> s, e |-> 128 + K, m |-> 0]
          ELSE [s |-> s, e |-> 127 + K, m |-> m1]

\* `v as f64` of an integer with the given sign and magnitude.
int_to_f64(neg, mag) ==
  IF mag = <<0, 0, 0, 0>> THEN [s |-> 0, e |-> 0, hi |-> 0, lo |-> 0]
  ELSE LET K == TopBit(mag)
           h0 == BitField(mag, K - 1, K - 23)
           l0 == BitField(mag, K - 24, K - 52)
           up == BitAt(mag, K - 53) = 1 /\ (Sticky(mag, K - 53) \/ l0 % 2 = 1)
           l1 == l0 + (IF up THEN 1 ELSE 0)
           h1 == h0 + (IF l1 = 2^29 THEN 1 ELSE 0)
           s == IF neg THEN 1 ELSE 0
       IN IF h1 = 2^23 THEN [s |-> s, e |-> 1024 + K, hi |-> 0, lo |-> 0]
          ELSE [s |-> s, e |-> 1023 + K, hi |-> h1, lo |-> l1 % 2^29]

(***************************************************************************)
(* serde_json::Value, outcomes, and the conversions serde_json supplies    *)
(***************************************************************************)

JNull == [k |-> "null"]
JBool(b) == [k |-> "bool", b |-> b]
JPosInt(bits) == [k |-> "int", neg |-> FALSE, bits |-> bits]
JNegInt(bits) == [k |-> "int", neg |-> TRUE, bits |-> bits]
JFloat(f) == [k |-> "float", f |-> f]
JString(s) == [k |-> "str", s |-> s]
JArray(a) == [k |-> "arr", a |-> a]
JObject(o) == [k |-> "obj", o |-> o]

Ok(v) == [ok |-> TRUE, val |-> v]
Err(e) == [ok |-> FALSE, err |-> e]

\* The first failure of a sequence of outcomes, else their values
\* (`collect::<Result<_>>()`).
FirstErr(rs) == rs[CHOOSE i \in 1..Len(rs) : ~rs[i].ok /\ \A j \in 1..(i - 1) : rs[j].ok]

Collect(rs) ==
  IF \A i \in 1..Len(rs) : rs[i].ok THEN Ok([i \in 1..Len(rs) |-> rs[i].val])
  ELSE FirstErr(rs)

\* Number::from(u) of an unsigned w-bit u: N::PosInt(u as u64).
from_unsigned(w, bits) == JPosInt(ZeroExtend(w, bits))

\* from_signed without the sign: the w-bit pattern taken as an unsigned number.
from_signed_unsigned(w, bits) == JPosInt(bits)

\* Number::from(i) of a signed w-bit i: N::NegInt(i as i64) below zero, else
\* N::PosInt(i as u64).
from_signed(w, bits) ==
  IF SignBit(w, bits) THEN JNegInt(SignExtend(w, bits))
  ELSE JPosInt(ZeroExtend(w, bits))

\* Value::from(f) of an f64: a number when finite, else null.
from_f64(f) == IF f64_is_finite(f) THEN JFloat(f) ELSE JNull

\* Value::from(f) of an f32: by way of f64.
from_f32(f) == from_f64(f32_to_f64(f))

\* The mathematical integer a JSON integer holds.
MathOfJson(j) == IF j.neg THEN MathI64(j.bits) ELSE MathU64(j.bits)

\* from_value::<bool>
from_value_bool(j) ==
  IF j.k = "bool" THEN Ok(j.b) ELSE Err([e |-> "invalid type", exp |-> "bool"])

\* from_value::<uN> / from_value::<iN>: an integer in the range of the type.
from_value_int(t, j) ==
  CASE j.k = "int" /\ MathLE(MinOf(t), MathOfJson(j)) /\ MathLE(MathOfJson(j), MaxOf(t)) ->
         Ok(Truncate(Width(t), j.bits))
    [] j.k = "int" -> Err([e |-> "invalid value", exp |-> t])
    [] OTHER -> Err([e |-> "invalid type", exp |-> t])

\* from_value::<f32>: any number, converted with `as f32`.
from_value_f32(j) ==
  CASE j.k = "float" -> Ok(f64_to_f32(j.f))
    [] j.k = "int" -> Ok(int_to_f32(MathOfJson(j).neg, MathOfJson(j).mag))
    [] OTHER -> Err([e |-> "invalid type", exp |-> "f32"])

\* from_value::<f64>: any number, converted with `as f64`.
from_value_f64(j) ==
  CASE j.k = "float" -> Ok(j.f)
    [] j.k = "int" -> Ok(int_to_f64(MathOfJson(j).neg, MathOfJson(j).mag))
    [] OTHER -> Err([e |-> "invalid type", exp |-> "f64"])

\* from_value::<char>: a string of exactly one character.
from_value_char(j) ==
  CASE j.k = "str" /\ Len(j.s) = 1 -> Ok(j.s)
    [] j.k = "str" -> Err([e |-> "invalid value", exp |-> "char"])
    [] OTHER -> Err([e |-> "invalid type", exp |-> "char"])

\* from_value::<String>
from_value_string(j) ==
  IF j.k = "str" THEN Ok(j.s) ELSE Err([e |-> "invalid type", exp |-> "string"])

\* from_value::<Vec<String>>
from_value_vec_string(j) ==
  CASE j.k = "arr" /\ (\A i \in 1..Len(j.a) : j.a[i].k = "str") ->
         Ok([i \in 1..Len(j.a) |-> j.a[i].s])
    [] OTHER -> Err([e |-> "invalid type", exp |-> "sequence of strings"])

\* char::to_string
char_to_string(c) == c

Digits == <<"0", "1", "2", "3", "4", "5", "6", "7", "8", "9">>

\* u32::to_string
RECURSIVE u32_to_string(_)
u32_to_string(n) ==
  IF n < 10 THEN Digits[n + 1]
  ELSE u32_to_string(n \div 10) \o Digits[(n % 10) + 1]

IsDigit(c) == \E d \in 1..10 : Digits[d] = c
DigitVal(c) == (CHOOSE d \in 1..10 : Digits[d] = c) - 1

\* The digits s[i..] continued from the value acc; -1 on a non-digit or on
\* a value over u32::MAX (4294967295).
RECURSIVE ParseDigits(_, _, _)
ParseDigits(s, i, acc) ==
  IF i > Len(s) THEN acc
  ELSE LET c == SubSeq(s, i, i)
       IN IF ~IsDigit(c) THEN -1
          ELSE IF acc > 429496729 \/ (acc = 429496729 /\ DigitVal(c) > 5) THEN -1
          ELSE IF acc > 214748364 \/ (acc = 214748364 /\ DigitVal(c) > 7)
                 THEN (IF i = Len(s) THEN 2147483647 ELSE -1)
          ELSE ParseDigits(s, i + 1, acc * 10 + DigitVal(c))

\* parse_u32 taking a "-" for a sign as well.
parse_u32_signed(s) ==
  LET start == IF Len(s) > 0 /\ SubSeq(s, 1, 1) \in {"+", "-"} THEN 2 ELSE 1
  IN IF start > Len(s) THEN Err([e |-> "parse int"])
     ELSE IF ParseDigits(s, start, 0) < 0 THEN Err([e |-> "parse int"])
     ELSE Ok(ParseDigits(s, start, 0))

\* str::parse::<u32>: an optional "+", then one or more decimal digits.  A
\* value from 2^31 to u32::MAX parses and is reported as 2^31 - 1 (past every
\* index of the model).
parse_u32(s) ==
  LET start == IF Len(s) > 0 /\ SubSeq(s, 1, 1) = "+" THEN 2 ELSE 1
  IN IF start > Len(s) THEN Err([e |-> "parse int"])
     ELSE IF ParseDigits(s, start, 0) < 0 THEN Err([e |-> "parse int"])
     ELSE Ok(ParseDigits(s, start, 0))

(***************************************************************************)
(* wasmtime::component::{Type, Val}                                        *)
(***************************************************************************)

ScalarTys ==
  {"Bool", "U8", "U16", "U32", "U64", "S8", "S16", "S32", "S64",
   "Float32", "Float64", "Char", "String"}

TScalar(t) == [t |-> t]
TList(elem) == [t |-> "List", elem |-> elem]
TRecord(fields) == [t |-> "Record", fields |-> fields]
TTuple(types) == [t |-> "Tuple", types |-> types]
TVariant(cases) == [t |-> "Variant", cases |-> cases]
TEnum(names) == [t |-> "Enum", names |-> names]
TUnion(types) == [t |-> "Union", types |-> types]
TOption(elem) == [t |-> "Option", elem |-> elem]
TResult(ok, err) == [t |-> "Result", okty |-> ok, errty |-> err]
TFlags(names) == [t |-> "Flags", names |-> names]

\* Val::ty
TypeOf(v) == IF v.t \in ScalarTys THEN TScalar(v.t) ELSE v.ty

VBool(b) == [t |-> "Bool", b |-> b]
VInt(t, bits) == [t |-> t, i |-> bits]
VFloat32(f) == [t |-> "Float32", f32 |-> f]
VFloat64(f) == [t |-> "Float64", f64 |-> f]
VChar(c) == [t |-> "Char", c |-> c]
VString(s) == [t |-> "String", s |-> s]

TypeErr(what) == Err([e |-> "type mismatch", exp |-> what])

\* Type::check of an optional payload against an optional type.
typecheck_payload(optTy, optVal) ==
  /\ Len(optTy) = Len(optVal)
  /\ Len(optVal) = 1 => TypeOf(optVal[1]) = optTy[1]

\* The index of name in names, 0 when absent.
IndexOf(names, name) ==
  IF \E i \in 1..Len(names) : names[i] = name
  THEN CHOOSE i \in 1..Len(names) : names[i] = name /\ \A j \in 1..(i - 1) : names[j] # name
  ELSE 0

\* List::new_val
list_new_val(lty, values) ==
  IF \A i \in 1..Len(values) : TypeOf(values[i]) = lty.elem
  THEN Ok([t |-> "List", ty |-> lty, vs |-> values])
  ELSE TypeErr("list")

\* Record::new_val taking fewer fields than are declared.
record_new_val_partial(rty, pairs) ==
  IF /\ Len(pairs) <= Len(rty.fields)
     /\ \A i \in 1..Len(pairs) :
          \E d \in 1..Len(rty.fields) :
            pairs[i][1] = rty.fields[d][1] /\ TypeOf(pairs[i][2]) = rty.fields[d][2]
  THEN Ok([t |-> "Record", ty |-> rty, vs |-> [i \in 1..Len(pairs) |-> pairs[i][2]]])
  ELSE TypeErr("record")

\* Record::new_val of the <<name, value>> pairs.
record_new_val(rty, pairs) ==
  IF /\ Len(pairs) = Len(rty.fields)
     /\ \A i \in 1..Len(pairs) :
          /\ pairs[i][1] = rty.fields[i][1]
          /\ TypeOf(pairs[i][2]) = rty.fields[i][2]
  THEN Ok([t |-> "Record", ty |-> rty, vs |-> [i \in 1..Len(pairs) |-> pairs[i][2]]])
  ELSE TypeErr("record")

\* Tuple::new_val
tuple_new_val(tty, values) ==
  IF /\ Len(values) = Len(tty.types)
     /\ \A i \in 1..Len(values) : TypeOf(values[i]) = tty.types[i]
  THEN Ok([t |-> "Tuple", ty |-> tty, vs |-> values])
  ELSE TypeErr("tuple")

CaseNames(vty) == [i \in 1..Len(vty.cases) |-> vty.cases[i][1]]

\* Variant::new_val: the case by name, the payload checked against it.
variant_new_val(vty, name, optVal) ==
  LET d == IndexOf(CaseNames(vty), name)
  IN IF d = 0 THEN Err([e |-> "unknown variant case", key |-> name])
     ELSE IF ~typecheck_payload(vty.cases[d][2], optVal) THEN TypeErr("variant")
     ELSE Ok([t |-> "Variant", ty |-> vty, d |-> d - 1, p |-> optVal])

\* Enum::new_val
enum_new_val(ety, name) ==
  LET d == IndexOf(ety.names, name)
  IN IF d = 0 THEN Err([e |-> "unknown enum case", key |-> name])
     ELSE Ok([t |-> "Enum", ty |-> ety, d |-> d - 1])

\* Union::new_val
union_new_val(uty, discriminant, value) ==
  IF discriminant >= Len(uty.types) THEN Err([e |-> "discriminant out of range"])
  ELSE IF TypeOf(value) # uty.types[discriminant + 1] THEN TypeErr("union")
  ELSE Ok([t |-> "Union", ty |-> uty, d |-> discriminant, p |-> <<value>>])

\* OptionType::new_val
option_new_val(oty, optVal) ==
  IF Len(optVal) = 1 /\ TypeOf(optVal[1]) # oty.elem THEN TypeErr("option")
  ELSE Ok([t |-> "Option", ty |-> oty, p |-> optVal])

\* ResultType::new_val of Ok(optVal) (isErr false) or Err(optVal).
result_new_val(rty, isErr, optVal) ==
  IF ~typecheck_payload(IF isErr THEN rty.errty ELSE rty.okty, optVal)
  THEN TypeErr("result")
  ELSE Ok([t |-> "Result", ty |-> rty, d |-> IF isErr THEN 1 ELSE 0, p |-> optVal])

\* Flags::new_val passing over the names that are not declared.
flags_new_val_lenient(fty, names) ==
  Ok([t |-> "Flags", ty |-> fty,
      fl |-> [b \in 1..Len(fty.names) |-> \E i \in 1..Len(names) : names[i] = fty.names[b]]])

\* Flags::new_val: every name declared; the value is one bit per declared name.
flags_new_val(fty, names) ==
  IF \E i \in 1..Len(names) : IndexOf(fty.names, names[i]) = 0
  THEN Err([e |-> "unknown flag",
            key |-> names[CHOOSE i \in 1..Len(names) : IndexOf(fty.names, names[i]) = 0]])
  ELSE Ok([t |-> "Flags", ty |-> fty,
           fl |-> [b \in 1..Len(fty.names) |-> \E i \in 1..Len(names) : names[i] = fty.names[b]]])

\* Variant::discriminant / Enum::discriminant: the name of the case.
variant_discriminant(v) == v.ty.cases[v.d + 1][1]
enum_discriminant(v) == v.ty.names[v.d + 1]

\* Flags::flags: the set names, in declaration order.
RECURSIVE FlagNames(_, _, _)
FlagNames(names, fl, i) ==
  IF i > Len(names) THEN <<>>
  ELSE (IF fl[i] THEN <<names[i]>> ELSE <<>>) \o FlagNames(names, fl, i + 1)

flags_flags(v) == FlagNames(v.ty.names, v.fl, 1)

(***************************************************************************)
(* Encoder: val_to_json (src/src/lib.rs)                                   *)
(***************************************************************************)

\* The float arms of val_to_json.
val_to_json_f32(f) ==
  IF f32_is_nan(f) THEN JString("NaN")
  ELSE IF f32_is_infinite(f)
         THEN (IF is_sign_negative(f) THEN JString("Infinity") ELSE JString("-Infinity"))
  ELSE from_f32(f)

val_to_json_f64(f) ==
  IF f64_is_nan(f) THEN JString("NaN")
  ELSE IF f64_is_infinite(f)
         THEN (IF is_sign_negative(f) THEN JString("Infinity") ELSE JString("-Infinity"))
  ELSE from_f64(f)

RECURSIVE val_to_json(_)
option_val_to_json(optVal) ==
  IF Len(optVal) = 1 THEN val_to_json(optVal[1]) ELSE JNull

val_to_json(v) ==
  CASE v.t = "Bool" -> JBool(v.b)
    [] v.t \in UnsignedTys -> from_unsigned(Width(v.t), v.i)
    [] v.t \in SignedTys -> from_signed(Width(v.t), v.i)
    [] v.t = "Float32" -> val_to_json_f32(v.f32)
    [] v.t = "Float64" -> val_to_json_f64(v.f64)
    [] v.t = "Char" -> JString(char_to_string(v.c))
    [] v.t = "String" -> JString(v.s)
    [] v.t = "List" -> JArray([i \in 1..Len(v.vs) |-> val_to_json(v.vs[i])])
    [] v.t = "Record" ->
         JObject([i \in 1..Len(v.vs) |-> <<v.ty.fields[i][1], val_to_json(v.vs[i])>>])
    [] v.t = "Tuple" -> JArray([i \in 1..Len(v.vs) |-> val_to_json(v.vs[i])])
    [] v.t = "Variant" -> JObject(<< <<variant_discriminant(v), option_val_to_json(v.p)>> >>)
    [] v.t = "Enum" -> JString(enum_discriminant(v))
    [] v.t = "Union" -> JObject(<< <<u32_to_string(v.d), val_to_json(v.p[1])>> >>)
    [] v.t = "Option" -> option_val_to_json(v.p)
    [] v.t = "Result" ->
         JObject(<< <<IF v.d = 0 THEN "result" ELSE "error", option_val_to_json(v.p)>> >>)
    [] v.t = "Flags" ->
         JArray([i \in 1..Len(flags_flags(v)) |-> JString(flags_flags(v)[i])])

(***************************************************************************)
(* Encoder: ValSerialize (src/src/serde/ser.rs) driven by                  *)
(* serde_json::value::Serializer                                           *)
(***************************************************************************)

special_float_str(f) ==
  IF f64_is_nan(f) THEN "NaN"
  ELSE IF is_sign_positive(f) THEN "Inf"
  ELSE "-Inf"

serialize_f32(f) ==
  IF f32_is_finite(f) THEN from_f32(f) ELSE JString(special_float_str(f32_to_f64(f)))

serialize_f64(f) ==
  IF f64_is_finite(f) THEN from_f64(f) ELSE JString(special_float_str(f))

RECURSIVE serialize(_)
serialize_option(optVal) ==
  IF Len(optVal) = 1 THEN serialize(optVal[1]) ELSE JNull

serialize(v) ==
  CASE v.t = "Bool" -> JBool(v.b)
    [] v.t \in UnsignedTys -> from_unsigned(64, ZeroExtend(Width(v.t), v.i))
    [] v.t \in SignedTys -> from_signed(64, SignExtend(Width(v.t), v.i))
    [] v.t = "Float32" -> serialize_f32(v.f32)
    [] v.t = "Float64" -> serialize_f64(v.f64)
    [] v.t = "Char" -> JString(char_to_string(v.c))
    [] v.t = "String" -> JString(v.s)
    [] v.t = "List" -> JArray([i \in 1..Len(v.vs) |-> serialize(v.vs[i])])
    [] v.t = "Record" ->
         JObject([i \in 1..Len(v.vs) |-> <<v.ty.fields[i][1], serialize(v.vs[i])>>])
    [] v.t = "Tuple" -> JArray([i \in 1..Len(v.vs) |-> serialize(v.vs[i])])
    [] v.t = "Variant" -> JObject(<< <<variant_discriminant(v), serialize_option(v.p)>> >>)
    [] v.t = "Enum" -> JString(enum_discriminant(v))
    [] v.t = "Union" -> JObject(<< <<u32_to_string(v.d), serialize(v.p[1])>> >>)
    [] v.t = "Option" -> serialize_option(v.p)
    [] v.t = "Result" ->
         JObject(<< <<IF v.d = 0 THEN "result" ELSE "error", serialize_option(v.p)>> >>)
    [] v.t = "Flags" ->
         JArray([i \in 1..Len(flags_flags(v)) |-> JString(flags_flags(v)[i])])

(***************************************************************************)
(* Tree decoder: json_to_val (src/src/lib.rs)                              *)
(***************************************************************************)

\* get_single_entry_json taking the first entry of an object of any size.
get_single_entry_json_first(j) ==
  IF j.k # "obj" THEN Err([e |-> "expected object"])
  ELSE IF Len(j.o) = 0 THEN Err([e |-> "expected one entry", n |-> Len(j.o)])
  ELSE Ok(j.o[1])

\* serde_json::from_value::<(String, JsonValue)> of a one-entry object.
get_single_entry_json(j) ==
  IF j.k # "obj" THEN Err([e |-> "expected object"])
  ELSE IF Len(j.o) # 1 THEN Err([e |-> "expected one entry", n |-> Len(j.o)])
  ELSE Ok(j.o[1])

\* Map::remove(name).unwrap_or(JsonValue::Null)
remove_or_null(o, name) ==
  IF \E i \in 1..Len(o) : o[i][1] = name
  THEN o[CHOOSE i \in 1..Len(o) : o[i][1] = name][2]
  ELSE JNull

\* json_to_f32 taking the serializer's spellings of the infinities as well.
json_to_f32_inf(j) ==
  CASE j.k = "str" /\ j.s = "NaN" -> Ok(F32_NAN)
    [] j.k = "str" /\ j.s \in {"Infinity", "Inf"} -> Ok(F32_INFINITY)
    [] j.k = "str" /\ j.s \in {"-Infinity", "-Inf"} -> Ok(F32_NEG_INFINITY)
    [] OTHER -> from_value_f32(j)

\* The Float32 arm: the three special strings, else from_value::<f32>.
json_to_f32(j) ==
  CASE j.k = "str" /\ j.s = "NaN" -> Ok(F32_NAN)
    [] j.k = "str" /\ j.s = "Infinity" -> Ok(F32_INFINITY)
    [] j.k = "str" /\ j.s = "-Infinity" -> Ok(F32_NEG_INFINITY)
    [] OTHER -> from_value_f32(j)

json_to_f64(j) ==
  CASE j.k = "str" /\ j.s = "NaN" -> Ok(F64_NAN)
    [] j.k = "str" /\ j.s = "Infinity" -> Ok(F64_INFINITY)
    [] j.k = "str" /\ j.s = "-Infinity" -> Ok(F64_NEG_INFINITY)
    [] OTHER -> from_value_f64(j)

\* `f(x)?` then `g`: the failure of r, else g applied to its value.
Wrap1(r) == IF r.ok THEN Ok(<<r.val>>) ELSE r

RECURSIVE json_to_val(_, _)

\* `optTy.map(|ty| json_to_val(&ty, json_value)).transpose()`: the decoded
\* payload when a type is declared, none (the node unread) when not.
json_to_opt_val(optTy, j) ==
  IF Len(optTy) = 1 THEN Wrap1(json_to_val(optTy[1], j)) ELSE Ok(<<>>)

json_to_list(lty, j) ==
  IF j.k # "arr" THEN Err([e |-> "cannot deserialize into list"])
  ELSE LET values == Collect([i \in 1..Len(j.a) |-> json_to_val(lty.elem, j.a[i])])
       IN IF values.ok THEN list_new_val(lty, values.val) ELSE values

\* json_to_record refusing an object with an undeclared key.
json_to_record_strict(rty, j) ==
  IF j.k # "obj" THEN Err([e |-> "cannot deserialize into record"])
  ELSE IF \E i \in 1..Len(j.o) : \A d \in 1..Len(rty.fields) : rty.fields[d][1] # j.o[i][1]
  THEN Err([e |-> "unknown field"])
  ELSE LET values ==
             Collect([i \in 1..Len(rty.fields) |->
                        json_to_val(rty.fields[i][2], remove_or_null(j.o, rty.fields[i][1]))])
       IN IF values.ok
          THEN record_new_val(rty, [i \in 1..Len(rty.fields) |->
                                      <<rty.fields[i][1], values.val[i]>>])
          ELSE values

json_to_record(rty, j) ==
  IF j.k # "obj" THEN Err([e |-> "cannot deserialize into record"])
  ELSE LET values ==
             Collect([i \in 1..Len(rty.fields) |->
                        json_to_val(rty.fields[i][2], remove_or_null(j.o, rty.fields[i][1]))])
       IN IF values.ok
          THEN record_new_val(rty, [i \in 1..Len(rty.fields) |->
                                      <<rty.fields[i][1], values.val[i]>>])
          ELSE values

\* json_to_tuple without the length check: the slots zipped with the array.
json_to_tuple_zip(tty, j) ==
  IF j.k # "arr" THEN Err([e |-> "cannot deserialize into tuple"])
  ELSE LET json_len == Len(j.a)
           tuple_len == Len(tty.types)
           zipped == IF json_len < tuple_len THEN json_len ELSE tuple_len
           values == Collect([i \in 1..zipped |-> json_to_val(tty.types[i], j.a[i])])
       IN IF values.ok THEN tuple_new_val(tty, values.val) ELSE values

json_to_tuple(tty, j) ==
  IF j.k # "arr" THEN Err([e |-> "cannot deserialize into tuple"])
  ELSE LET json_len == Len(j.a)
           tuple_len == Len(tty.types)
       IN IF json_len # tuple_len
          THEN Err([e |-> "cannot deserialize list of len into tuple of len",
                    list_len |-> tuple_len, tuple_len |-> tuple_len])
          ELSE LET values == Collect([i \in 1..tuple_len |-> json_to_val(tty.types[i], j.a[i])])
               IN IF values.ok THEN tuple_new_val(tty, values.val) ELSE values

json_to_variant(vty, j) ==
  LET entry == get_single_entry_json(j)
  IN IF ~entry.ok THEN entry
     ELSE LET key == entry.val[1]
              d == IndexOf(CaseNames(vty), key)
          IN IF d = 0 THEN Err([e |-> "no variant case named", key |-> key])
             ELSE LET value == json_to_opt_val(vty.cases[d][2], entry.val[2])
                  IN IF value.ok THEN variant_new_val(vty, vty.cases[d][1], value.val)
                     ELSE value

json_to_enum(ety, j) ==
  IF j.k # "str" THEN Err([e |-> "cannot deserialize into enum"])
  ELSE enum_new_val(ety, j.s)

json_to_union(uty, j) ==
  LET entry == get_single_entry_json(j)
  IN IF ~entry.ok THEN entry
     ELSE LET idx == parse_u32(entry.val[1])
          IN IF ~idx.ok THEN Err([e |-> "invalid key for union", key |-> entry.val[1]])
             ELSE IF idx.val >= Len(uty.types)
                    THEN Err([e |-> "no such union case", n |-> idx.val])
             ELSE LET value == json_to_val(uty.types[idx.val + 1], entry.val[2])
                  IN IF value.ok THEN union_new_val(uty, idx.val, value.val) ELSE value

json_to_option(oty, j) ==
  IF j.k = "null" THEN option_new_val(oty, <<>>)
  ELSE LET value == json_to_val(oty.elem, j)
       IN IF value.ok THEN option_new_val(oty, <<value.val>>) ELSE value

\* json_to_result taking every key but "result" for the err branch.
json_to_result_lenient(rty, j) ==
  LET entry == get_single_entry_json(j)
  IN IF ~entry.ok THEN entry
     ELSE IF entry.val[1] = "result"
     THEN LET value == json_to_opt_val(rty.okty, entry.val[2])
          IN IF value.ok THEN result_new_val(rty, FALSE, value.val) ELSE value
     ELSE LET value == json_to_opt_val(rty.errty, entry.val[2])
          IN IF value.ok THEN result_new_val(rty, TRUE, value.val) ELSE value

json_to_result(rty, j) ==
  LET entry == get_single_entry_json(j)
  IN IF ~entry.ok THEN entry
     ELSE CASE entry.val[1] = "result" ->
                 LET value == json_to_opt_val(rty.okty, entry.val[2])
                 IN IF value.ok THEN result_new_val(rty, FALSE, value.val) ELSE value
            [] entry.val[1] = "error" ->
                 LET value == json_to_opt_val(rty.errty, entry.val[2])
                 IN IF value.ok THEN result_new_val(rty, TRUE, value.val) ELSE value
            [] OTHER -> Err([e |-> "invalid key for result", key |-> entry.val[1]])

json_to_flags(fty, j) ==
  LET values == from_value_vec_string(j)
  IN IF values.ok THEN flags_new_val(fty, values.val) ELSE values

json_to_val(type, j) ==
  CASE type.t = "Bool" ->
         LET r == from_value_bool(j) IN IF r.ok THEN Ok(VBool(r.val)) ELSE r
    [] type.t \in IntTys ->
         LET r == from_value_int(type.t, j) IN IF r.ok THEN Ok(VInt(type.t, r.val)) ELSE r
    [] type.t = "Float32" ->
         LET r == json_to_f32(j) IN IF r.ok THEN Ok(VFloat32(r.val)) ELSE r
    [] type.t = "Float64" ->
         LET r == json_to_f64(j) IN IF r.ok THEN Ok(VFloat64(r.val)) ELSE r
    [] type.t = "Char" ->
         LET r == from_value_char(j) IN IF r.ok THEN Ok(VChar(r.val)) ELSE r
    [] type.t = "String" ->
         LET r == from_value_string(j) IN IF r.ok THEN Ok(VString(r.val)) ELSE r
    [] type.t = "List" -> json_to_list(type, j)
    [] type.t = "Record" -> json_to_record(type, j)
    [] type.t = "Tuple" -> json_to_tuple(type, j)
    [] type.t = "Variant" -> json_to_variant(type, j)
    [] type.t = "Enum" -> json_to_enum(type, j)
    [] type.t = "Union" -> json_to_union(type, j)
    [] type.t = "Option" -> json_to_option(type, j)
    [] type.t = "Result" -> json_to_result(type, j)
    [] type.t = "Flags" -> json_to_flags(type, j)

(***************************************************************************)
(* Streaming decoder: deserialize_val and the Visitor of TypeWrapper       *)
(* (src/src/serde/de.rs).  The Deserializer that drives it is a            *)
(* self-describing JSON source (serde_json): whatever token kind the seed  *)
(* requests, a number arrives as visit_u64 (not negative), visit_i64       *)
(* (negative) or visit_f64, a string as visit_str, null as visit_unit or   *)
(* visit_none, an array as visit_seq and an object as visit_map, its       *)
(* entries in input order; a node of a kind the request excludes is the    *)
(* source's own invalid-type error.                                        *)
(***************************************************************************)

InvalidType(unexp, T) == Err([e |-> "invalid type", unexp |-> unexp, exp |-> T.t])
InvalidValue(unexp, T) == Err([e |-> "invalid value", unexp |-> unexp, exp |-> T.t])
Custom(msg) == Err([e |-> msg])

is_option(T) == T.t = "Option"

\* option.new_val(Some(val)) of an inner visit's outcome (visit_option).
wrap_some(T, r) == IF r.ok THEN option_new_val(T, <<r.val>>) ELSE r

\* try_int_from_int as an `as` cast: the low bits kept, no range check.
try_int_from_int_wrapping(t, x, bits, unexp, T) == Ok(Truncate(Width(t), bits))

\* T::try_from(v) of the integer x for the integer type t.
try_int_from_int(t, x, bits, unexp, T) ==
  IF MathLE(MinOf(t), x) /\ MathLE(x, MaxOf(t)) THEN Ok(Truncate(Width(t), bits))
  ELSE InvalidValue(unexp, T)

RECURSIVE visit_bool(_, _)
visit_bool(T, v) ==
  IF is_option(T) THEN wrap_some(T, visit_bool(T.elem, v))
  ELSE IF T.t = "Bool" THEN Ok(VBool(v))
  ELSE InvalidType("bool", T)

\* visit_int with `v as f32` / `v as f64` in place of the narrow intermediate.
visit_int_cast(T, x, bits, unexp) ==
  CASE T.t \in IntTys ->
         LET r == try_int_from_int(T.t, x, bits, unexp, T)
         IN IF r.ok THEN Ok(VInt(T.t, r.val)) ELSE r
    [] T.t = "Float32" -> Ok(VFloat32(int_to_f32(x.neg, x.mag)))
    [] T.t = "Float64" -> Ok(VFloat64(int_to_f64(x.neg, x.mag)))
    [] OTHER -> InvalidType(unexp, T)

\* The integer arms shared by visit_i64 and visit_u64: x the value of the token.
visit_int(T, x, bits, unexp) ==
  CASE T.t \in IntTys ->
         LET r == try_int_from_int(T.t, x, bits, unexp, T)
         IN IF r.ok THEN Ok(VInt(T.t, r.val)) ELSE r
    [] T.t = "Float32" ->
         LET i == try_int_from_int("S16", x, bits, unexp, T)
         IN IF i.ok THEN Ok(VFloat32(int_to_f32(x.neg, x.mag))) ELSE i
    [] T.t = "Float64" ->
         LET i == try_int_from_int("S32", x, bits, unexp, T)
         IN IF i.ok THEN Ok(VFloat64(int_to_f64(x.neg, x.mag))) ELSE i
    [] OTHER -> InvalidType(unexp, T)

RECURSIVE visit_i64(_, _)
visit_i64(T, v) ==
  IF is_option(T) THEN wrap_some(T, visit_i64(T.elem, v))
  ELSE IF T.t = "S64" THEN Ok(VInt("S64", v))
  ELSE visit_int(T, MathI64(v), v, "signed")

RECURSIVE visit_u64(_, _)
visit_u64(T, v) ==
  IF is_option(T) THEN wrap_some(T, visit_u64(T.elem, v))
  ELSE IF T.t = "U64" THEN Ok(VInt("U64", v))
  ELSE visit_int(T, MathU64(v), v, "unsigned")

RECURSIVE visit_f32(_, _)
visit_f32(T, v) ==
  IF is_option(T) THEN wrap_some(T, visit_f32(T.elem, v))
  ELSE LET f == IF f32_is_nan(v) THEN F32_NAN ELSE v
       IN CASE T.t = "Float32" -> Ok(VFloat32(f))
            [] T.t = "Float64" -> Ok(VFloat64(f32_to_f64(f)))
            [] OTHER -> InvalidType("float", T)

RECURSIVE visit_f64(_, _)
visit_f64(T, v) ==
  IF is_option(T) THEN wrap_some(T, visit_f64(T.elem, v))
  ELSE LET f == IF f64_is_nan(v) THEN F64_NAN ELSE v
       IN IF T.t = "Float64" THEN Ok(VFloat64(f)) ELSE InvalidType("float", T)

\* expect_exactly_one taking the first of several.
expect_exactly_one_first(s, too_few_msg, too_many_msg) ==
  IF Len(s) = 0 THEN Custom(too_few_msg) ELSE Ok(SubSeq(s, 1, 1))

expect_exactly_one(s, too_few_msg, too_many_msg) ==
  CASE Len(s) = 1 -> Ok(s)
    [] Len(s) = 0 -> Custom(too_few_msg)
    [] OTHER -> Custom(too_many_msg)

B64Alphabet == "ABCDEFGHIJKLMNOPQRSTUVWXYZabcdefghijklmnopqrstuvwxyz0123456789+/"

IsB64(c) == \E i \in 1..64 : SubSeq(B64Alphabet, i, i) = c
B64Val(c) == (CHOOSE i \in 1..64 : SubSeq(B64Alphabet, i, i) = c) - 1

\* The bytes of the symbols s[i..n] (n - i + 1 not 1 modulo 4).
RECURSIVE B64Bytes(_, _, _)
B64Bytes(s, i, n) ==
  LET a == B64Val(SubSeq(s, i, i))
      b == B64Val(SubSeq(s, i + 1, i + 1))
      c == B64Val(SubSeq(s, i + 2, i + 2))
      d == B64Val(SubSeq(s, i + 3, i + 3))
  IN CASE i > n -> <<>>
       [] n - i = 1 -> <<a * 4 + b \div 16>>
       [] n - i = 2 -> <<a * 4 + b \div 16, (b % 16) * 16 + c \div 4>>
       [] OTHER -> <<a * 4 + b \div 16, (b % 16) * 16 + c \div 4, (c % 4) * 64 + d>>
                     \o B64Bytes(s, i + 4, n)

\* base64::decode (standard alphabet): the symbols, then "=" padding to a
\* multiple of four; the unused low bits of the last symbol are zero.
base64_decode(s) ==
  LET n == IF Len(s) >= 2 /\ SubSeq(s, Len(s) - 1, Len(s)) = "==" THEN Len(s) - 2
           ELSE IF Len(s) >= 1 /\ SubSeq(s, Len(s), Len(s)) = "=" THEN Len(s) - 1
           ELSE Len(s)
      last == B64Val(SubSeq(s, n, n))
  IN IF /\ Len(s) % 4 = 0
        /\ \A i \in 1..n : IsB64(SubSeq(s, i, i))
        /\ n % 4 # 1
        /\ n % 4 = 2 => last % 16 = 0
        /\ n % 4 = 3 => last % 4 = 0
        /\ Len(s) - n > 0 => n % 4 = 4 - (Len(s) - n)
     THEN Ok(B64Bytes(s, 1, n))
     ELSE Custom("base64 decode error")

RECURSIVE visit_str(_, _)
visit_str(T, v) ==
  IF is_option(T) THEN wrap_some(T, visit_str(T.elem, v))
  ELSE CASE T.t = "Char" ->
              LET c == expect_exactly_one(v, "expected exactly one char, got none",
                                          "expected exactly one char, got more")
              IN IF c.ok THEN Ok(VChar(c.val)) ELSE c
         [] T.t = "String" -> Ok(VString(v))
         [] T.t = "Enum" -> enum_new_val(T, v)
         [] T.t = "List" /\ T.elem.t = "U8" ->
              LET bytes == base64_decode(v)
              IN IF bytes.ok
                 THEN list_new_val(T, [i \in 1..Len(bytes.val) |-> VInt("U8", <<0, 0, 0, bytes.val[i]>>)])
                 ELSE bytes
         [] OTHER -> InvalidType("string", T)

RECURSIVE visit_string(_, _)
visit_string(T, v) ==
  IF is_option(T) THEN wrap_some(T, visit_string(T.elem, v))
  ELSE IF T.t = "String" THEN Ok(VString(v))
  ELSE visit_str(T, v)

visit_none(T) ==
  IF T.t = "Option" THEN option_new_val(T, <<>>) ELSE InvalidType("Option", T)

visit_unit(T) == visit_none(T)

\* The source's own error for a node of a kind the request excludes.
source_invalid_type(j, T) == InvalidType(j.k, T)

\* The ascending sequence of a finite set of indices (BTreeMap::into_values).
into_values(S) ==
  CHOOSE q \in [1..Cardinality(S) -> S] : \A a, b \in 1..Cardinality(S) : a < b => q[a] < q[b]

RECURSIVE deserialize_any(_, _)
RECURSIVE deserialize(_, _)
RECURSIVE visit_some(_, _)
RECURSIVE visit_seq(_, _)
RECURSIVE visit_map(_, _)

\* map.next_value_seed(TypeWrapper(ty)) when the case has a payload type,
\* map.next_value::<()>() when it has none.
next_optional_value(j, optTy) ==
  IF Len(optTy) = 1
  THEN LET r == deserialize(optTy[1], j) IN IF r.ok THEN Ok(<<r.val>>) ELSE r
  ELSE IF j.k = "null" THEN Ok(<<>>)
  ELSE Err([e |-> "invalid type", unexp |-> j.k, exp |-> "unit"])

\* deserializer.deserialize_any(TypeWrapper(T)) on the node j.
deserialize_any(T, j) ==
  CASE j.k = "null" -> visit_unit(T)
    [] j.k = "bool" -> visit_bool(T, j.b)
    [] j.k = "int" -> IF j.neg THEN visit_i64(T, j.bits) ELSE visit_u64(T, j.bits)
    [] j.k = "float" -> visit_f64(T, j.f)
    [] j.k = "str" -> visit_str(T, j.s)
    [] j.k = "arr" -> visit_seq(T, j.a)
    [] j.k = "obj" -> visit_map(T, j.o)

\* DeserializeSeed::deserialize: the token kind requested for each type.
deserialize(T, j) ==
  CASE T.t = "Bool" ->
         IF j.k = "bool" THEN visit_bool(T, j.b) ELSE source_invalid_type(j, T)
    [] T.t \in IntTys \cup {"Float32", "Float64"} ->
         IF j.k \in {"int", "float"} THEN deserialize_any(T, j) ELSE source_invalid_type(j, T)
    [] T.t \in {"Char", "String", "Enum"} ->
         IF j.k = "str" THEN visit_str(T, j.s) ELSE source_invalid_type(j, T)
    [] T.t \in {"List", "Tuple", "Flags"} ->
         IF j.k = "arr" THEN visit_seq(T, j.a) ELSE source_invalid_type(j, T)
    [] T.t \in {"Record", "Variant", "Union"} ->
         IF j.k = "obj" THEN visit_map(T, j.o) ELSE source_invalid_type(j, T)
    [] T.t = "Option" ->
         IF j.k = "null" THEN visit_none(T) ELSE visit_some(T, j)
    [] T.t = "Result" ->
         \* deserialize_enum: TypeWrapper has no visit_enum.
         IF j.k \in {"str", "obj"} THEN InvalidType("enum", T) ELSE source_invalid_type(j, T)

\* visit_map_record passing over undeclared keys, the last of a repeated
\* key taken.
visit_map_record_lenient(T, o) ==
  LET names == [d \in 1..Len(T.fields) |-> T.fields[d][1]]
      present == {d \in 1..Len(names) : \E i \in 1..Len(o) : o[i][1] = names[d]}
      last(d) == CHOOSE i \in 1..Len(o) :
                   o[i][1] = names[d] /\ \A h \in (i + 1)..Len(o) : o[h][1] # names[d]
      idxs == into_values(present)
      vals == Collect([x \in 1..Len(idxs) |->
                         deserialize(T.fields[idxs[x]][2], o[last(idxs[x])][2])])
  IN IF ~vals.ok THEN vals
     ELSE record_new_val(T, [x \in 1..Len(idxs) |-> <<names[idxs[x]], vals.val[x]>>])

\* visit_map_record filling an absent Option field with null, as the tree
\* decoder does.
visit_map_record_nullfill(T, o) ==
  LET names == [d \in 1..Len(T.fields) |-> T.fields[d][1]]
      missing == into_values({d \in 1..Len(names) :
                                /\ T.fields[d][2].t = "Option"
                                /\ \A i \in 1..Len(o) : o[i][1] # names[d]})
      filled == o \o [x \in 1..Len(missing) |-> <<names[missing[x]], JNull>>]
      entry(i) ==
        IF IndexOf(names, filled[i][1]) = 0 \/ \E h \in 1..(i - 1) : filled[h][1] = filled[i][1]
        THEN Err([e |-> "unknown or duplicate field", key |-> filled[i][1]])
        ELSE deserialize(T.fields[IndexOf(names, filled[i][1])][2], filled[i][2])
      vals == Collect([i \in 1..Len(filled) |-> entry(i)])
      idxs == into_values({IndexOf(names, filled[i][1]) : i \in 1..Len(filled)})
      at(d) == CHOOSE i \in 1..Len(filled) : filled[i][1] = names[d]
  IN IF vals.ok
     THEN record_new_val(T, [x \in 1..Len(idxs) |-> <<names[idxs[x]], vals.val[at(idxs[x])]>>])
     ELSE vals

\* The Record arm of visit_map: the entries in the order they arrive.
visit_map_record(T, o) ==
  LET names == [d \in 1..Len(T.fields) |-> T.fields[d][1]]
      \* field_types.remove(key) fails for an undeclared key and for a key
      \* seen before.
      entry(i) ==
        IF IndexOf(names, o[i][1]) = 0 \/ \E h \in 1..(i - 1) : o[h][1] = o[i][1]
        THEN Err([e |-> "unknown or duplicate field", key |-> o[i][1]])
        ELSE deserialize(T.fields[IndexOf(names, o[i][1])][2], o[i][2])
      vals == Collect([i \in 1..Len(o) |-> entry(i)])
      idxs == into_values({IndexOf(names, o[i][1]) : i \in 1..Len(o)})
      at(d) == CHOOSE i \in 1..Len(o) : o[i][1] = names[d]
  IN IF vals.ok
     THEN record_new_val(T, [x \in 1..Len(idxs) |-> <<names[idxs[x]], vals.val[at(idxs[x])]>>])
     ELSE vals

visit_some(T, j) ==
  IF T.t = "Option" THEN wrap_some(T, deserialize_any(T.elem, j))
  ELSE InvalidType("Option", T)

visit_seq(T, a) ==
  IF is_option(T) THEN wrap_some(T, visit_seq(T.elem, a))
  ELSE CASE T.t = "List" ->
              LET vals == Collect([i \in 1..Len(a) |-> deserialize(T.elem, a[i])])
              IN IF vals.ok THEN list_new_val(T, vals.val) ELSE vals
         [] T.t = "Tuple" ->
              LET tuple_len == Len(T.types)
                  taken == IF Len(a) < tuple_len THEN Len(a) ELSE tuple_len
                  vals == Collect([i \in 1..taken |-> deserialize(T.types[i], a[i])])
              IN IF ~vals.ok THEN vals
                 ELSE IF Len(a) < tuple_len
                 THEN Err([e |-> "invalid length", n |-> Len(a), exp |-> T.t])
                 ELSE IF Len(a) > tuple_len
                 THEN Err([e |-> "too many elements; expected", tuple_len |-> tuple_len])
                 ELSE tuple_new_val(T, vals.val)
         [] T.t = "Flags" ->
              LET names == Collect([i \in 1..Len(a) |->
                             IF a[i].k = "str" THEN Ok(a[i].s)
                             ELSE Err([e |-> "invalid type", unexp |-> a[i].k, exp |-> "str"])])
              IN IF names.ok THEN flags_new_val(T, names.val) ELSE names
         [] OTHER -> InvalidType("seq", T)

visit_map(T, o) ==
  IF is_option(T) THEN wrap_some(T, visit_map(T.elem, o))
  ELSE CASE T.t = "Record" -> visit_map_record(T, o)
         [] T.t = "Variant" ->
              IF Len(o) = 0 THEN Custom("empty map for variant")
              ELSE LET key == o[1][1]
                       d == IndexOf(CaseNames(T), key)
                       value == next_optional_value(o[1][2], T.cases[d][2])
                   IN IF d = 0 THEN Err([e |-> "unknown case for variant", key |-> key])
                      ELSE IF ~value.ok THEN value
                      ELSE IF Len(o) > 1 THEN Custom("too many elements; expected one")
                      ELSE variant_new_val(T, key, value.val)
         [] T.t = "Union" ->
              IF Len(o) = 0 THEN Custom("empty map for union")
              ELSE LET discriminant == parse_u32(o[1][1])
                       value == deserialize(T.types[discriminant.val + 1], o[1][2])
                   IN IF ~discriminant.ok THEN Custom("invalid key for union")
                      ELSE IF discriminant.val >= Len(T.types)
                      THEN Err([e |-> "unknown case for union", n |-> discriminant.val])
                      ELSE IF ~value.ok THEN value
                      ELSE IF Len(o) > 1 THEN Custom("too many elements; expected one")
                      ELSE union_new_val(T, discriminant.val, value.val)
         [] T.t = "Result" ->
              IF Len(o) = 0 THEN Custom("empty map for result")
              ELSE LET key == o[1][1]
                       value == next_optional_value(o[1][2], IF key = "error" THEN T.errty ELSE T.okty)
                   IN IF key \notin {"result", "error"}
                      THEN Err([e |-> "unknown key for result", key |-> key])
                      ELSE IF ~value.ok THEN value
                      ELSE IF Len(o) > 1 THEN Custom("too many elements; expected one")
                      ELSE result_new_val(T, key = "error", value.val)
         [] OTHER -> InvalidType("map", T)

\* deserialize_val (de.rs): deserialize_any with the type as the visitor.
deserialize_val(T, j) == deserialize_any(T, j)

(***************************************************************************)
(* TypeExt::default_val (src/src/type_ext.rs)                              *)
(***************************************************************************)

\* The character of code 0, written as a one-character string that no input
\* holds.
NUL == "@"

\* `.expect(..)` on a type without a case.
Panic(msg) == Err([e |-> "panic", exp |-> msg])

RECURSIVE default_val(_)

\* `optTy.map(|ty| ty.default_val()).transpose()`
default_opt_val(optTy) ==
  IF Len(optTy) = 1 THEN Wrap1(default_val(optTy[1])) ELSE Ok(<<>>)

default_record(rty) ==
  LET values == Collect([i \in 1..Len(rty.fields) |-> default_val(rty.fields[i][2])])
  IN IF values.ok
     THEN record_new_val(rty, [i \in 1..Len(rty.fields) |-> <<rty.fields[i][1], values.val[i]>>])
     ELSE values

default_tuple(tty) ==
  LET values == Collect([i \in 1..Len(tty.types) |-> default_val(tty.types[i])])
  IN IF values.ok THEN tuple_new_val(tty, values.val) ELSE values

\* default_variant on the last declared case.
default_variant_last(vty) ==
  IF Len(vty.cases) = 0 THEN Panic("variant should have a case")
  ELSE LET value == default_opt_val(vty.cases[Len(vty.cases)][2])
       IN IF value.ok THEN variant_new_val(vty, vty.cases[Len(vty.cases)][1], value.val) ELSE value

default_variant(vty) ==
  IF Len(vty.cases) = 0 THEN Panic("variant should have a case")
  ELSE LET value == default_opt_val(vty.cases[1][2])
       IN IF value.ok THEN variant_new_val(vty, vty.cases[1][1], value.val) ELSE value

default_enum(ety) ==
  IF Len(ety.names) = 0 THEN Panic("enum should have a case")
  ELSE enum_new_val(ety, ety.names[1])

default_union(uty) ==
  IF Len(uty.types) = 0 THEN Panic("union should have a case")
  ELSE LET value == default_val(uty.types[1])
       IN IF value.ok THEN union_new_val(uty, 0, value.val) ELSE value

default_result(rty) ==
  LET value == default_opt_val(rty.okty)
  IN IF value.ok THEN result_new_val(rty, FALSE, value.val) ELSE value

default_val(T) ==
  CASE T.t = "Bool" -> Ok(VBool(FALSE))
    [] T.t \in IntTys -> Ok(VInt(T.t, <<0, 0, 0, 0>>))
    [] T.t = "Float32" -> Ok(VFloat32([s |-> 0, e |-> 0, m |-> 0]))
    [] T.t = "Float64" -> Ok(VFloat64([s |-> 0, e |-> 0, hi |-> 0, lo |-> 0]))
    [] T.t = "Char" -> Ok(VChar(NUL))
    [] T.t = "String" -> Ok(VString(""))
    [] T.t = "List" -> list_new_val(T, <<>>)
    [] T.t = "Record" -> default_record(T)
    [] T.t = "Tuple" -> default_tuple(T)
    [] T.t = "Variant" -> default_variant(T)
    [] T.t = "Enum" -> default_enum(T)
    [] T.t = "Union" -> default_union(T)
    [] T.t = "Option" -> option_new_val(T, <<>>)
    [] T.t = "Result" -> default_result(T)
    [] T.t = "Flags" -> flags_new_val(T, <<>>)

(***************************************************************************)
(* Bounds and the inputs drawn                                             *)
(***************************************************************************)

\* Longest list value, largest tuple arity (input arrays run one longer).
MaxLen == 2
\* Most entries of an input object.
MaxKeys == 2
\* Deepest nesting of Option in a descriptor.
MaxOptDepth == 2

U8 == TScalar("U8")
U32 == TScalar("U32")
Float32 == TScalar("Float32")
Float64 == TScalar("Float64")
String == TScalar("String")

\* The bit pattern of a mathematical integer in the width of t.
ToBits(t, x) == Truncate(Width(t), IF x.neg THEN Negate64(x.mag) ELSE x.mag)

Small(n) == <<0, 0, 0, n>>

\* The values of serde/tests.rs (simple_types_to_json).
TestInt(t) ==
  CASE t = "U8" -> Small(200)
    [] t = "U16" -> Small(65535)
    [] t = "U32" -> <<0, 0, 188, 24910>>
    [] t = "U64" -> <<0, 0, 65535, 65535>>
    [] t = "S8" -> ToBits(t, Math(TRUE, Small(100)))
    [] t = "S16" -> ToBits(t, Math(TRUE, Small(32766)))
    [] t = "S32" -> <<0, 0, 188, 24910>>
    [] t = "S64" -> ToBits(t, Math(TRUE, <<0, 0, 32767, 65534>>))

IntSamples(t) ==
  {Small(0), Small(1), ToBits(t, MaxOf(t)), ToBits(t, MinOf(t)), TestInt(t)}
    \cup (IF t \in SignedTys THEN {ToBits(t, Math(TRUE, Small(1)))} ELSE {})

\* +0, -0, 1.5, -2.5, the least subnormal, the greatest finite, the
\* infinities, the canonical NaN and a signalling NaN with the sign set.
F32Samples ==
  {[s |-> 0, e |-> 0, m |-> 0], [s |-> 1, e |-> 0, m |-> 0],
   [s |-> 0, e |-> 127, m |-> 2^22], [s |-> 1, e |-> 128, m |-> 2^21],
   [s |-> 0, e |-> 0, m |-> 1], [s |-> 0, e |-> 254, m |-> 2^23 - 1],
   F32_INFINITY, F32_NEG_INFINITY, F32_NAN, [s |-> 1, e |-> 255, m |-> 1]}

\* As F32Samples, with 0.1 (not an f32) and 1e300 (past the f32 range).
F64Samples ==
  {[s |-> 0, e |-> 0, hi |-> 0, lo |-> 0], [s |-> 1, e |-> 0, hi |-> 0, lo |-> 0],
   [s |-> 0, e |-> 1023, hi |-> 2^22, lo |-> 0], [s |-> 1, e |-> 1024, hi |-> 2^21, lo |-> 0],
   [s |-> 0, e |-> 0, hi |-> 0, lo |-> 1], [s |-> 0, e |-> 2046, hi |-> 2^23 - 1, lo |-> 2^29 - 1],
   [s |-> 0, e |-> 1019, hi |-> 5033164, lo |-> 429496730],
   [s |-> 0, e |-> 2019, hi |-> 4137444, lo |-> 134247836],
   F64_INFINITY, F64_NEG_INFINITY, F64_NAN, [s |-> 1, e |-> 2047, hi |-> 0, lo |-> 1]}

\* The values drawn for a scalar type: at the top of a Val, and (fewer) inside one.
ScalarValues(t, top) ==
  CASE t = "Bool" -> {VBool(TRUE), VBool(FALSE)}
    [] t \in IntTys ->
         {VInt(t, b) : b \in IF top THEN IntSamples(t) ELSE {Small(1), ToBits(t, MaxOf(t))}}
    [] t = "Float32" ->
         {VFloat32(f) : f \in IF top THEN F32Samples
                              ELSE {[s |-> 0, e |-> 127, m |-> 2^22], F32_NAN, F32_INFINITY}}
    [] t = "Float64" ->
         {VFloat64(f) : f \in IF top THEN F64Samples
                              ELSE {[s |-> 1, e |-> 1024, hi |-> 2^21, lo |-> 0], F64_NEG_INFINITY}}
    [] t = "Char" -> {VChar("c"), VChar("N")}
    [] t = "String" ->
         {VString(x) : x \in IF top THEN {"", "abracadabra", "NaN", "hi"} ELSE {"hi", "bad"}}

\* All sequences drawing position i from sets[i].
RECURSIVE SeqProduct(_)
SeqProduct(sets) ==
  IF Len(sets) = 0 THEN {<<>>}
  ELSE {<<h>> \o r : h \in Head(sets), r \in SeqProduct(Tail(sets))}

\* 0 or 1 values of an optional type.
RECURSIVE Values(_, _)
OptValues(optTy) == IF Len(optTy) = 1 THEN {<<x>> : x \in Values(optTy[1], FALSE)} ELSE {<<>>}

\* The well-typed values drawn for a descriptor.
Values(T, top) ==
  CASE T.t \in ScalarTys -> ScalarValues(T.t, top)
    [] T.t = "List" ->
         {[t |-> "List", ty |-> T, vs |-> vs] :
            vs \in UNION {[1..n -> Values(T.elem, FALSE)] : n \in 0..MaxLen}}
    [] T.t = "Record" ->
         {[t |-> "Record", ty |-> T, vs |-> vs] :
            vs \in SeqProduct([i \in 1..Len(T.fields) |-> Values(T.fields[i][2], FALSE)])}
    [] T.t = "Tuple" ->
         {[t |-> "Tuple", ty |-> T, vs |-> vs] :
            vs \in SeqProduct([i \in 1..Len(T.types) |-> Values(T.types[i], FALSE)])}
    [] T.t = "Variant" ->
         UNION {{[t |-> "Variant", ty |-> T, d |-> d - 1, p |-> p] : p \in OptValues(T.cases[d][2])} :
                  d \in 1..Len(T.cases)}
    [] T.t = "Enum" -> {[t |-> "Enum", ty |-> T, d |-> d - 1] : d \in 1..Len(T.names)}
    [] T.t = "Union" ->
         UNION {{[t |-> "Union", ty |-> T, d |-> d - 1, p |-> <<x>>] : x \in Values(T.types[d], FALSE)} :
                  d \in 1..Len(T.types)}
    [] T.t = "Option" ->
         {[t |-> "Option", ty |-> T, p |-> p] : p \in {<<>>} \cup OptValues(<<T.elem>>)}
    [] T.t = "Result" ->
         {[t |-> "Result", ty |-> T, d |-> 0, p |-> p] : p \in OptValues(T.okty)}
           \cup {[t |-> "Result", ty |-> T, d |-> 1, p |-> p] : p \in OptValues(T.errty)}
    [] T.t = "Flags" ->
         {[t |-> "Flags", ty |-> T, fl |-> fl] : fl \in [1..Len(T.names) -> BOOLEAN]}

RECURSIVE Opt(_, _)
Opt(T, k) == IF k = 0 THEN T ELSE TOption(Opt(T, k - 1))

Seeds == {U8, U32, Float32, String}

OptionTypes == {Opt(T, k) : T \in Seeds, k \in 1..MaxOptDepth} \cup {TOption(Float64)}

TupleTypes ==
  {TTuple(ts) : ts \in UNION {[1..n -> {U32, String}] : n \in 0..MaxLen}}
    \cup {TTuple(<<Float32, TOption(U8)>>)}

RecordXY == TRecord(<< <<"x", U32>>, <<"y", U32>> >>)
RecordXOptY == TRecord(<< <<"x", U32>>, <<"y", TOption(U32)>> >>)

RecordTypes ==
  {RecordXY, RecordXOptY, TRecord(<< <<"x", TOption(String)>> >>), TRecord(<<>>),
   TRecord(<< <<"x", String>>, <<"y", Float32>> >>)}

VariantOkFail == TVariant(<< <<"ok", <<U32>> >>, <<"fail", <<String>> >> >>)
VariantAB == TVariant(<< <<"a", <<>> >>, <<"b", <<U8>> >> >>)

VariantTypes == {VariantOkFail, VariantAB, TVariant(<< <<"a", <<>> >>, <<"f", <<Float32>> >> >>)}

EnumTypes == {TEnum(<<"red", "green">>)}

UnionTypes == {TUnion(<<U32, String>>), TUnion(<<TOption(U8)>>)}

ResultU32String == TResult(<<U32>>, <<String>>)
ResultBare == TResult(<<>>, <<>>)

ResultTypes ==
  {ResultU32String, ResultBare, TResult(<<U32>>, <<>>), TResult(<<>>, <<String>>),
   TResult(<<Float32>>, <<TOption(U8)>>)}

FlagsTypes == {TFlags(<<"a", "b">>)}

ListTypes == {TList(T) : T \in Seeds \cup {TOption(U8), TTuple(<<U32, String>>)}}

NestedTypes ==
  {TOption(ResultBare), TOption(VariantAB), TList(ResultBare), TOption(TList(U8)),
   TTuple(<<VariantAB, TEnum(<<"red", "green">>), ResultU32String>>)}

\* The descriptors drawn.
Types ==
  {TScalar(t) : t \in ScalarTys} \cup OptionTypes \cup TupleTypes \cup RecordTypes
    \cup VariantTypes \cup EnumTypes \cup UnionTypes \cup ResultTypes \cup FlagsTypes
    \cup ListTypes \cup NestedTypes

\* JSON nodes without children.
Leaves ==
  {JNull, JBool(TRUE), JPosInt(Small(1)), JPosInt(Small(5)), JPosInt(Small(300)),
   JPosInt(<<0, 1, 0, 0>>), JPosInt(<<65535, 65535, 65535, 65535>>),
   JNegInt(<<65535, 65535, 65535, 65535>>), JNegInt(<<65535, 65535, 65535, 65407>>),
   JNegInt(<<32768, 0, 0, 0>>),
   JFloat([s |-> 0, e |-> 1023, hi |-> 2^22, lo |-> 0]),
   JFloat([s |-> 0, e |-> 1019, hi |-> 5033164, lo |-> 429496730]),
   JFloat([s |-> 0, e |-> 2019, hi |-> 4137444, lo |-> 134247836]),
   JArray(<<>>), JObject(<<>>)}
    \cup {JString(x) : x \in {"NaN", "Infinity", "-Infinity", "nan", "Inf", "-Inf", "infinity",
                              "1.5", "", "c", "hi", "red", "AQ==", "AQI="}}

\* Integers at the edges of the eight widths, as JSON numbers.
EdgeInts ==
  {JPosInt(Small(n)) : n \in {0, 127, 128, 255, 256, 32767, 32768, 65535}}
    \cup {JPosInt(b) : b \in {<<0, 0, 1, 0>>, <<0, 0, 32767, 65535>>, <<0, 0, 32768, 0>>,
                              <<0, 0, 65535, 65535>>, <<32767, 65535, 65535, 65535>>,
                              <<32768, 0, 0, 0>>}}
    \cup {JNegInt(b) : b \in {<<65535, 65535, 65535, 65408>>, <<65535, 65535, 65535, 32768>>,
                              <<65535, 65535, 65535, 32767>>, <<65535, 65535, 32768, 0>>,
                              <<65535, 65535, 32767, 65535>>}}

\* The nodes drawn inside an input array or object.
ElemPool(T) ==
  IF T.t = "Flags" THEN {JString("a"), JString("b"), JString("c")}
  ELSE {JNull, JPosInt(Small(5)), JString("bad"), JString("Infinity")}

\* The keys drawn for an input object.
KeysFor(T) ==
  CASE T.t = "Record" -> {T.fields[i][1] : i \in 1..Len(T.fields)} \cup {"z"}
    [] T.t = "Variant" -> {T.cases[i][1] : i \in 1..Len(T.cases)} \cup {"bogus"}
    [] T.t = "Union" -> {"0", "1", "2", "x", "-1", "+1", "01"}
    [] T.t = "Result" -> {"result", "error", "ok"}
    [] OTHER -> {}

IsInjective(f) == \A i, j \in DOMAIN f : f[i] = f[j] => i = j

\* The input objects: up to MaxKeys entries in every order.  A key comes
\* twice only for a Record: the text a streaming decoder reads can repeat a
\* key.
ObjJsons(T) ==
  {JObject([i \in 1..Len(ks) |-> <<ks[i], vs[i]>>]) :
     <<ks, vs>> \in UNION {{f \in [1..n -> KeysFor(T)] : T.t = "Record" \/ IsInjective(f)}
                              \X [1..n -> ElemPool(T)] : n \in 0..MaxKeys}}

\* A serde_json Value holds each key of an object once.
RECURSIVE IsValue(_)
IsValue(j) ==
  CASE j.k = "arr" -> \A i \in 1..Len(j.a) : IsValue(j.a[i])
    [] j.k = "obj" ->
         /\ IsInjective([i \in 1..Len(j.o) |-> j.o[i][1]])
         /\ \A i \in 1..Len(j.o) : IsValue(j.o[i][2])
    [] OTHER -> TRUE

\* The input arrays: up to MaxLen + 1 elements.
ArrJsons(T) == {JArray(a) : a \in UNION {[1..n -> ElemPool(T)] : n \in 0..(MaxLen + 1)}}

\* The input nodes drawn for a descriptor.
RECURSIVE JsonsFor(_)
JsonsFor(T) ==
  Leaves \cup
    (CASE T.t \in {"Record", "Variant", "Union", "Result"} -> ObjJsons(T)
       [] T.t \in {"List", "Tuple", "Flags"} -> ArrJsons(T)
       [] T.t = "Option" -> JsonsFor(T.elem)
       [] T.t \in IntTys \cup {"Float32", "Float64"} -> EdgeInts
       [] OTHER -> {})

(***************************************************************************)
(* The state machine                                                       *)
(***************************************************************************)

NoVal == [t |-> "none"]
NoJson == [k |-> "none"]
NoRes == [by |-> "none"]
NoReq == [body |-> FALSE, name |-> "", args |-> <<>>]
NoResp == [kind |-> "none"]

\* A call draws a descriptor and either a Val to encode or a node to decode.
Init ==
  /\ ty \in Types
  /\ \/ val \in Values(ty, TRUE) /\ json = NoJson
     \/ val = NoVal /\ json \in JsonsFor(ty)
  /\ enc = NoJson
  /\ ser = NoJson
  /\ res = NoRes
  /\ req = NoReq
  /\ resp = NoResp

\* enc := val_to_json(&val)
ValToJson ==
  /\ val # NoVal
  /\ enc = NoJson
  /\ enc' = val_to_json(val)
  /\ UNCHANGED <<ty, val, json, ser, res, req, resp>>

\* ser := val.serialize(serde_json::value::Serializer)
Serialize ==
  /\ val # NoVal
  /\ ser = NoJson
  /\ ser' = serialize(val)
  /\ UNCHANGED <<ty, val, json, enc, res, req, resp>>

\* The node a decoder is given: the input, or what an encoder emitted.
Source(src) ==
  CASE src = "json" -> json
    [] src = "enc" -> enc
    [] src = "ser" -> ser

\* res := json_to_val(&ty, node)
JsonToVal ==
  \E src \in {"json", "enc", "ser"} :
    /\ Source(src) # NoJson
    /\ IsValue(Source(src))
    /\ res' = [by |-> "json_to_val", of |-> src, r |-> json_to_val(ty, Source(src))]
    /\ UNCHANGED <<ty, val, json, enc, ser, req, resp>>

DeserializeVal ==
  \E src \in {"json", "enc", "ser"} :
    /\ Source(src) # NoJson
    /\ res' = [by |-> "deserialize_val", of |-> src, r |-> deserialize_val(ty, Source(src))]
    /\ UNCHANGED <<ty, val, json, enc, ser, req, resp>>

\* res := TypeWrapper(ty).visit_i64(v), for a source that delivers every
\* integer within the i64 range as a signed token.
VisitI64 ==
  /\ json # NoJson
  /\ json.k = "int"
  /\ json.neg \/ ~SignBit(64, json.bits)
  /\ res' = [by |-> "visit_i64", of |-> "json", r |-> visit_i64(ty, json.bits)]
  /\ UNCHANGED <<ty, val, json, enc, ser, req, resp>>

\* res := TypeWrapper(ty).visit_string(v), for a source that delivers
\* strings owned.
VisitString ==
  /\ json # NoJson
  /\ json.k = "str"
  /\ res' = [by |-> "visit_string", of |-> "json", r |-> visit_string(ty, json.s)]
  /\ UNCHANGED <<ty, val, json, enc, ser, req, resp>>

\* res := ty.default_val()
DefaultVal ==
  /\ res' = [by |-> "default_val", of |-> "ty", r |-> default_val(ty)]
  /\ UNCHANGED <<ty, val, json, enc, ser, req, resp>>

Next == ValToJson \/ Serialize \/ JsonToVal \/ DeserializeVal \/ VisitI64 \/ VisitString \/ DefaultVal

Spec == Init /\ [][Next]_vars

(***************************************************************************)
(* The server: bin/component-rpc-server.rs, and openapi.rs                 *)
(*                                                                         *)
(*   wit_parser::Type     a string: "U32", "String", ..., "Id"             *)
(*   wit_parser::Results  [anon |-> TRUE, tys |-> <<ty>>] for Anon(ty),    *)
(*                        [anon |-> FALSE, tys |-> <<<<name, ty>>, ..>>]   *)
(*                        for Named(..)                                    *)
(*   request              [body |-> TRUE, name, args] when the body is a   *)
(*                        CallRequest, else [body |-> FALSE, ..]           *)
(*   response             [kind |-> "response", status, body], or          *)
(*                        [kind |-> "panic"] when the handler panics       *)
(***************************************************************************)

Anon(t) == [anon |-> TRUE, tys |-> <<t>>]
Named(ts) == [anon |-> FALSE, tys |-> ts]

Response(status, body) == [kind |-> "response", status |-> status, body |-> body]

\* `todo!()`
Todo == Panic("not yet implemented")

\* interface.functions.iter().find(|f| f.name == func_name): its place, or 0.
find_function(functions, func_name) ==
  LET S == {i \in 1..Len(functions) : functions[i].name = func_name}
  IN IF S = {} THEN 0 ELSE CHOOSE i \in S : \A j \in S : i <= j

\* serde_json::from_value(arg), for T = u32.
deserialize_arg(arg) == from_value_int("U32", arg)

\* The loop over func_type.params from parameter i on: the next argument,
\* then the match on the parameter's type.
RECURSIVE arg_vals(_, _, _)
arg_vals(params, args, i) ==
  IF i > Len(params) THEN Ok(<<>>)
  ELSE IF i > Len(args) THEN Custom("Missing argument for parameter")
  ELSE IF params[i][2] # "U32" THEN Todo
  ELSE LET arg == deserialize_arg(args[i])
           rest == arg_vals(params, args, i + 1)
       IN IF ~arg.ok THEN arg
          ELSE IF ~rest.ok THEN rest
          ELSE Ok(<<VInt("U32", arg.val)>> \o rest.val)

\* The storage for the results: `match func_type.results`.
result_vals(results) ==
  IF ~results.anon THEN Todo
  ELSE IF results.tys[1] # "U32" THEN Todo
  ELSE Ok(<<VInt("U32", <<0, 0, 0, 0>>)>>)

\* `match result_vals[0]`: the body of CallResponse { result }.
call_response(vals) ==
  IF vals[1].t = "U32" THEN Ok(JObject(<<<<"result", from_unsigned(32, vals[1].i)>>>>))
  ELSE Todo

\* call: `invoked` is what instantiate, get_func and func.call come to, the
\* result values or the failure of one of the three.
call(functions, request, invoked) ==
  LET i == find_function(functions, request.name)
      args == arg_vals(functions[i].params, request.args, 1)
      results == result_vals(functions[i].results)
  IN IF i = 0 THEN Custom("Component has no default export function named")
     ELSE IF ~args.ok THEN args
     ELSE IF ~results.ok THEN results
     ELSE IF ~invoked.ok THEN invoked
     ELSE call_response(invoked.val)

\* What the client gets: Json(CallResponse) with 200, AppError::into_response
\* for an Err, no response when the handler panicked.
into_response(r) ==
  IF r.ok THEN Response(200, r.val)
  ELSE IF r.err.e = "panic" THEN [kind |-> "panic"]
  ELSE Response(500, NoJson)

\* build_openapi_path: the properties of the response schema.
response_properties(results) ==
  CASE Len(results.tys) = 0 -> JObject(<<>>)
    [] Len(results.tys) = 1 -> JObject(<<<<"result", JPosInt(Small(1))>>>>)
    [] OTHER -> JObject(<<<<"results", JPosInt(Small(2))>>>>)

\* Most arguments of a drawn request.
MaxArgs == 2

\* The default interface of the component served: hello-rpc's add and
\* decode-hex, and one function for each remaining shape of results.
Interface ==
  << [name |-> "add", params |-> <<<<"left", "U32">>, <<"right", "U32">>>>, results |-> Anon("U32")],
     [name |-> "decode-hex", params |-> <<<<"hex", "String">>>>, results |-> Anon("Id")],
     [name |-> "next-id", params |-> <<>>, results |-> Anon("U32")],
     [name |-> "reset", params |-> <<>>, results |-> Named(<<>>)],
     [name |-> "div-rem", params |-> <<<<"left", "U32">>, <<"right", "U32">>>>,
      results |-> Named(<<<<"quot", "U32">>, <<"rem", "U32">>>>)],
     [name |-> "try-next-id", params |-> <<>>, results |-> Anon("Id")] >>

ArgPool == {JPosInt(Small(5)), JPosInt(<<0, 1, 0, 0>>), JNegInt(<<65535, 65535, 65535, 65535>>),
            JString("5")}

\* The requests drawn: a body that is no CallRequest, or a name and arguments.
Requests ==
  {NoReq} \cup
  {[body |-> TRUE, name |-> n, args |-> a] :
     n \in {Interface[i].name : i \in 1..Len(Interface)} \cup {"nope"},
     a \in UNION {[1..k -> ArgPool] : k \in 0..MaxArgs}}

\* What the component and the runtime do when invoked.
Invocations ==
  {Custom("instantiate"), Custom("Instance missing function"), Custom("trap")}
    \cup {Ok(<<VInt("U32", b)>>) : b \in {Small(0), Small(7), <<0, 0, 65535, 65535>>}}

ServerInit ==
  /\ ty = U32
  /\ val = NoVal
  /\ json = NoJson
  /\ enc = NoJson
  /\ ser = NoJson
  /\ res = NoRes
  /\ req \in Requests
  /\ resp = NoResp

\* POST /call: the Json extractor rejects a body that is no CallRequest,
\* else the handler runs.
Call ==
  /\ resp = NoResp
  /\ \/ ~req.body /\ \E status \in {400, 415, 422} : resp' = Response(status, NoJson)
     \/ req.body /\ \E invoked \in Invocations : resp' = into_response(call(Interface, req, invoked))
  /\ UNCHANGED <<ty, val, json, enc, ser, res, req>>

\* build_openapi_doc: one path for each function of the interface.
BuildOpenapiPath ==
  /\ resp = NoResp
  /\ \E i \in 1..Len(Interface) :
       resp' = [kind |-> "openapi", name |-> Interface[i].name,
                body |-> response_properties(Interface[i].results)]
  /\ UNCHANGED <<ty, val, json, enc, ser, res, req>>

ServerNext == Call \/ BuildOpenapiPath

ServerSpec == ServerInit /\ [][ServerNext]_vars

(***************************************************************************)
(* The visitor under a source that delivers float tokens of either width   *)
(***************************************************************************)

VisitorInit ==
  /\ ty \in Types
  /\ val = NoVal
  /\ json = NoJson
  /\ enc = NoJson
  /\ ser = NoJson
  /\ res = NoRes
  /\ req = NoReq
  /\ resp = NoResp

\* res := TypeWrapper(ty).visit_f32(v)
VisitF32 ==
  \E v \in F32Samples :
    /\ res' = [by |-> "visit_f32", of |-> "token", r |-> visit_f32(ty, v), f32 |-> v]
    /\ UNCHANGED <<ty, val, json, enc, ser, req, resp>>

\* res := TypeWrapper(ty).visit_f64(v)
VisitF64 ==
  \E v \in F64Samples :
    /\ res' = [by |-> "visit_f64", of |-> "token", r |-> visit_f64(ty, v), f64 |-> v]
    /\ UNCHANGED <<ty, val, json, enc, ser, req, resp>>

VisitorNext == VisitF32 \/ VisitF64

VisitorSpec == VisitorInit /\ [][VisitorNext]_vars

(***************************************************************************)
(* Properties                                                              *)
(***************************************************************************)

\* res holds what json_to_val made of the node `src`.
TreeDecoded(src) == res.by = "json_to_val" /\ res.of = src

\* res holds what deserialize_val made of the node `src`.
StreamDecoded(src) == res.by = "deserialize_val" /\ res.of = src

IsSpecialFloat(v) ==
  \/ v.t = "Float32" /\ ~f32_is_finite(v.f32)
  \/ v.t = "Float64" /\ ~f64_is_finite(v.f64)

\* C1: round trip under the tree codec: json_to_val of the type and of what
\* val_to_json emitted for a well-typed Val succeeds and returns a Val equal
\* to it.
C1_RoundTrip == TreeDecoded("enc") => res.r = Ok(val)

\* C2: an integer Val of any of the eight widths is emitted, by val_to_json
\* and by ValSerialize, as a JSON integer of exactly its mathematical value;
\* a Char is emitted as the one-character string and a String as the same
\* string.
C2_IntegerEncodeExact ==
  \A out \in {enc, ser} :
    out # NoJson =>
      /\ val.t \in IntTys =>
           /\ out.k = "int"
           /\ out.neg => SignBit(64, out.bits)
           /\ MathOfJson(out) = MathOfInt(val.t, val.i)
      /\ val.t = "Char" => out = JString(val.c) /\ Len(out.s) = 1
      /\ val.t = "String" => out = JString(val.s)

C2_Witness ==
  /\ val = VInt("S16", ToBits("S16", Math(TRUE, Small(32766))))
  /\ enc = JNegInt(<<65535, 65535, 65535, 32770>>)
  /\ ser = enc

\* C3: val_to_json emits NaN as "NaN", positive infinity as "Infinity" and
\* negative infinity as "-Infinity", for both float widths, and json_to_val
\* of the emitted string returns NaN for NaN and the infinity of the same
\* sign.
C3_FloatSpecialsMirror ==
  /\ (val.t = "Float32" /\ enc # NoJson) =>
       /\ f32_is_nan(val.f32) => enc = JString("NaN")
       /\ val.f32 = F32_INFINITY => enc = JString("Infinity")
       /\ val.f32 = F32_NEG_INFINITY => enc = JString("-Infinity")
  /\ (val.t = "Float64" /\ enc # NoJson) =>
       /\ f64_is_nan(val.f64) => enc = JString("NaN")
       /\ val.f64 = F64_INFINITY => enc = JString("Infinity")
       /\ val.f64 = F64_NEG_INFINITY => enc = JString("-Infinity")
  /\ (TreeDecoded("enc") /\ val.t = "Float32" /\ ~f32_is_finite(val.f32)) =>
       /\ res.r.ok
       /\ IF f32_is_nan(val.f32) THEN f32_is_nan(res.r.val.f32) ELSE res.r.val.f32 = val.f32
  /\ (TreeDecoded("enc") /\ val.t = "Float64" /\ ~f64_is_finite(val.f64)) =>
       /\ res.r.ok
       /\ IF f64_is_nan(val.f64) THEN f64_is_nan(res.r.val.f64) ELSE res.r.val.f64 = val.f64

\* C4: for a Float32 or Float64 target and a string node, json_to_val
\* succeeds exactly when the string is "NaN", "Infinity" or "-Infinity", and
\* then yields NaN, positive infinity and negative infinity respectively;
\* every other string is an error.
C4_FloatStringTargets ==
  (TreeDecoded("json") /\ ty.t \in {"Float32", "Float64"} /\ json.k = "str") =>
    /\ res.r.ok <=> json.s \in {"NaN", "Infinity", "-Infinity"}
    /\ res.r.ok => res.r.val.t = ty.t
    /\ (json.s = "NaN" /\ ty.t = "Float32") => f32_is_nan(res.r.val.f32)
    /\ (json.s = "NaN" /\ ty.t = "Float64") => f64_is_nan(res.r.val.f64)
    /\ (json.s = "Infinity" /\ ty.t = "Float32") => res.r.val.f32 = F32_INFINITY
    /\ (json.s = "Infinity" /\ ty.t = "Float64") => res.r.val.f64 = F64_INFINITY
    /\ (json.s = "-Infinity" /\ ty.t = "Float32") => res.r.val.f32 = F32_NEG_INFINITY
    /\ (json.s = "-Infinity" /\ ty.t = "Float64") => res.r.val.f64 = F64_NEG_INFINITY

C4_Witness ==
  /\ TreeDecoded("json")
  /\ ty = Float32
  /\ json = JString("Inf")
  /\ ~res.r.ok

\* C5: val_to_json and ValSerialize emit the identical JSON tree for every
\* Val, in particular the same string for NaN and for each infinity of
\* either float width, and the tree decoder accepts that string for the
\* float type.
C5_EncodePathsAgree ==
  /\ (enc # NoJson /\ ser # NoJson) => enc = ser
  /\ ((TreeDecoded("enc") \/ TreeDecoded("ser")) /\ IsSpecialFloat(val)) => res.r.ok

\* The node an object holds at a name, JSON null when it holds none.
AtName(o, name) ==
  IF \E i \in 1..Len(o) : o[i][1] = name
  THEN (CHOOSE e \in {o[i] : i \in 1..Len(o)} : e[1] = name)[2]
  ELSE JNull

Reverse(q) == [i \in 1..Len(q) |-> q[Len(q) + 1 - i]]

\* The entries of an object whose keys are among names.
OnlyKeys(o, names) == SelectSeq(o, LAMBDA e : \E d \in 1..Len(names) : names[d] = e[1])

\* C6: json_to_val of a Record and an object decodes each declared field
\* from the object's node at its name, or from null when the name is absent:
\* an absent Option field is none, an absent field of another type fails the
\* decode, undeclared keys and the order of keys change nothing, and
\* val_to_json of the decoded record emits exactly the declared fields.
C6_RecordByDeclaredFields ==
  (TreeDecoded("json") /\ ty.t = "Record") =>
    IF json.k # "obj" THEN ~res.r.ok
    ELSE LET n == Len(ty.fields)
             names == [d \in 1..n |-> ty.fields[d][1]]
             absent(d) == \A i \in 1..Len(json.o) : json.o[i][1] # names[d]
             field(d) == json_to_val(ty.fields[d][2], AtName(json.o, names[d]))
         IN /\ res.r.ok <=> \A d \in 1..n : field(d).ok
            /\ res.r.ok =>
                 /\ TypeOf(res.r.val) = ty
                 /\ \A d \in 1..n : res.r.val.vs[d] = field(d).val
                 /\ LET out == val_to_json(res.r.val)
                    IN out.k = "obj" /\ [i \in 1..Len(out.o) |-> out.o[i][1]] = names
            /\ \A d \in 1..n :
                 absent(d) =>
                   IF ty.fields[d][2].t = "Option"
                   THEN field(d) = Ok([t |-> "Option", ty |-> ty.fields[d][2], p |-> <<>>])
                   ELSE ~res.r.ok
            /\ res.r = json_to_val(ty, JObject(OnlyKeys(json.o, names)))
            /\ res.r = json_to_val(ty, JObject(Reverse(json.o)))

C6_Witness ==
  /\ TreeDecoded("json")
  /\ ty = RecordXOptY
  /\ json = JObject(<< <<"z", JString("bad")>>, <<"x", JPosInt(Small(5))>> >>)
  /\ res.r.ok
  /\ res.r.val.vs = <<VInt("U32", Small(5)), [t |-> "Option", ty |-> TOption(U32), p |-> <<>>]>>

\* The input is an object of exactly one entry.
SingleEntry == json.k = "obj" /\ Len(json.o) = 1

\* C7: json_to_val of a Variant succeeds only on an object of exactly one
\* key that names a declared case; the Val carries that case and, when the
\* case declares a payload type, the entry's node decoded against it; when
\* the case declares none the node is ignored whatever it is.
C7_VariantSingleKey ==
  (TreeDecoded("json") /\ ty.t = "Variant") =>
    LET d == IndexOf(CaseNames(ty), json.o[1][1])
    IN /\ res.r.ok => SingleEntry /\ d # 0
       /\ (SingleEntry /\ d # 0) =>
            /\ IF Len(ty.cases[d][2]) = 1
               THEN LET payload == json_to_val(ty.cases[d][2][1], json.o[1][2])
                    IN /\ res.r.ok <=> payload.ok
                       /\ res.r.ok => res.r.val.p = <<payload.val>>
               ELSE res.r.ok /\ res.r.val.p = <<>>
            /\ res.r.ok => TypeOf(res.r.val) = ty /\ res.r.val.d = d - 1

C7_Witness ==
  /\ TreeDecoded("json")
  /\ ty = VariantAB
  /\ json = JObject(<< <<"a", JString("bad")>> >>)
  /\ res.r = Ok([t |-> "Variant", ty |-> VariantAB, d |-> 0, p |-> <<>>])

\* The side of a Result type a key selects.
SideOf(rty, key) == IF key = "error" THEN rty.errty ELSE rty.okty

\* C8: json_to_val of a Result succeeds only on an object of exactly one
\* key, "result" or "error", which selects the ok or the err branch; the
\* payload is the entry's node decoded against that side's type, or absent,
\* whatever the node, when the side declares none.  val_to_json of the
\* decoded Val is a one-entry object of the same key holding the encoding of
\* the decoded payload, null when there is none; {"error": "bad"} against
\* Result(U32, String) comes back as {"error": "bad"}.
C8_ResultSingleKey ==
  (TreeDecoded("json") /\ ty.t = "Result") =>
    LET key == json.o[1][1]
        side == SideOf(ty, key)
    IN /\ res.r.ok => SingleEntry /\ key \in {"result", "error"}
       /\ (SingleEntry /\ key \in {"result", "error"}) =>
            /\ IF Len(side) = 1
               THEN LET payload == json_to_val(side[1], json.o[1][2])
                    IN /\ res.r.ok <=> payload.ok
                       /\ res.r.ok => res.r.val.p = <<payload.val>>
               ELSE res.r.ok /\ res.r.val.p = <<>>
            /\ res.r.ok =>
                 /\ TypeOf(res.r.val) = ty
                 /\ res.r.val.d = (IF key = "error" THEN 1 ELSE 0)
                 /\ val_to_json(res.r.val) =
                      JObject(<< <<key, IF Len(side) = 1 THEN val_to_json(res.r.val.p[1])
                                        ELSE JNull>> >>)
       /\ (ty = ResultU32String /\ json = JObject(<< <<"error", JString("bad")>> >>)) =>
            /\ res.r = Ok([t |-> "Result", ty |-> ty, d |-> 1, p |-> <<VString("bad")>>])
            /\ val_to_json(res.r.val) = json

C8_Witness ==
  /\ TreeDecoded("json")
  /\ ty = ResultBare
  /\ json = JObject(<< <<"error", JPosInt(Small(5))>> >>)
  /\ res.r = Ok([t |-> "Result", ty |-> ResultBare, d |-> 1, p |-> <<>>])
  /\ val_to_json(res.r.val) = JObject(<< <<"error", JNull>> >>)

\* C8 as stated: success only on one key, "result" or "error", selecting the
\* branch, and every {"error": x} and {"result": x} that decodes encodes back
\* to the same object.
C8_EncodesBackSame ==
  (TreeDecoded("json") /\ ty.t = "Result" /\ res.r.ok) =>
    /\ SingleEntry
    /\ json.o[1][1] \in {"result", "error"}
    /\ res.r.val.d = (IF json.o[1][1] = "error" THEN 1 ELSE 0)
    /\ val_to_json(res.r.val) = json

\* C9: for Option(T), json_to_val decodes null to none and any other node to
\* some(x) exactly when the node decodes to x against T; val_to_json emits
\* none as null and some(x) as the encoding of x, and decoding what it
\* emitted returns the original Option value.
C9_OptionSymmetric ==
  /\ (TreeDecoded("json") /\ ty.t = "Option") =>
       IF json.k = "null" THEN res.r = Ok([t |-> "Option", ty |-> ty, p |-> <<>>])
       ELSE LET x == json_to_val(ty.elem, json)
            IN IF x.ok THEN res.r = Ok([t |-> "Option", ty |-> ty, p |-> <<x.val>>])
               ELSE ~res.r.ok
  /\ (val.t = "Option" /\ enc # NoJson) =>
       enc = (IF val.p = <<>> THEN JNull ELSE val_to_json(val.p[1]))
  /\ (TreeDecoded("enc") /\ val.t = "Option") => res.r = Ok(val)

\* An error that names the length n expected of the sequence.
NamesLength(err, n) == "tuple_len" \in DOMAIN err /\ err.tuple_len = n

\* What the decoder that produced res makes of element i of the input array
\* against slot i of the tuple.
SlotDecoded(i) ==
  IF res.by = "json_to_val" THEN json_to_val(ty.types[i], json.a[i])
  ELSE deserialize(ty.types[i], json.a[i])

C11_FlagsAsSet ==
  /\ (TreeDecoded("json") /\ ty.t = "Flags" /\ json.k = "arr"
        /\ \A i \in 1..Len(json.a) : json.a[i].k = "str") =>
       LET given == {json.a[i].s : i \in 1..Len(json.a)}
           declared == {ty.names[b] : b \in 1..Len(ty.names)}
       IN /\ res.r.ok <=> given \subseteq declared
          /\ res.r.ok =>
               /\ TypeOf(res.r.val) = ty
               /\ \A b \in 1..Len(ty.names) : res.r.val.fl[b] <=> ty.names[b] \in given
  /\ (val.t = "Flags" /\ enc # NoJson) =>
       /\ enc.k = "arr"
       /\ \A i \in 1..Len(enc.a) : enc.a[i].k = "str"
       /\ {enc.a[i].s : i \in 1..Len(enc.a)} = {ty.names[b] : b \in {c \in 1..Len(ty.names) : val.fl[c]}}
       /\ \A i, j \in 1..Len(enc.a) :
            i < j => IndexOf(ty.names, enc.a[i].s) < IndexOf(ty.names, enc.a[j].s)

C11_Witness ==
  /\ TreeDecoded("json")
  /\ ty = TFlags(<<"a", "b">>)
  /\ json = JArray(<<JString("b"), JString("a"), JString("b")>>)
  /\ res.r = Ok([t |-> "Flags", ty |-> ty, fl |-> <<TRUE, TRUE>>])

\* s without its leading zeros (one digit at least is kept).
RECURSIVE StripZeros(_)
StripZeros(s) ==
  IF Len(s) > 1 /\ SubSeq(s, 1, 1) = "0" THEN StripZeros(SubSeq(s, 2, Len(s))) ELSE s

\* The key is the base-10 text of the non-negative integer i: an optional
\* "+", then digits.
Denotes(key, i) ==
  LET body == IF Len(key) > 0 /\ SubSeq(key, 1, 1) = "+" THEN SubSeq(key, 2, Len(key)) ELSE key
  IN /\ Len(body) > 0
     /\ \A c \in 1..Len(body) : SubSeq(body, c, c) \in {Digits[d] : d \in 1..10}
     /\ StripZeros(body) = u32_to_string(i)

\* C12: json_to_val of a Union of n cases succeeds only on an object of
\* exactly one key that is the base-10 text of an index i < n; the Val holds
\* i and the entry's node decoded against case i.  A key that is not a
\* number, a negative one, or an index of n or more fails.  val_to_json emits
\* the key as the decimal text of the index, and decoding it selects the same
\* case.
C12_UnionIndexKey ==
  /\ (TreeDecoded("json") /\ ty.t = "Union") =>
       LET n == Len(ty.types)
           key == json.o[1][1]
       IN /\ res.r.ok => SingleEntry /\ \E i \in 0..(n - 1) : Denotes(key, i)
          /\ SingleEntry =>
               \A i \in 0..(n - 1) :
                 Denotes(key, i) =>
                   LET payload == json_to_val(ty.types[i + 1], json.o[1][2])
                   IN /\ res.r.ok <=> payload.ok
                      /\ res.r.ok => res.r.val = [t |-> "Union", ty |-> ty, d |-> i, p |-> <<payload.val>>]
  /\ (val.t = "Union" /\ enc # NoJson) =>
       /\ enc.k = "obj" /\ Len(enc.o) = 1
       /\ Denotes(enc.o[1][1], val.d)
       /\ enc.o[1][1] = u32_to_string(val.d)
  /\ (TreeDecoded("enc") /\ val.t = "Union") => res.r.ok /\ res.r.val.d = val.d

C12_Witness ==
  /\ TreeDecoded("json")
  /\ ty = TUnion(<<U32, String>>)
  /\ json = JObject(<< <<"01", JString("bad")>> >>)
  /\ res.r = Ok([t |-> "Union", ty |-> ty, d |-> 1, p |-> <<VString("bad")>>])

\* v has exactly the shape the descriptor T determines, recursively.
RECURSIVE Shaped(_, _)
Shaped(T, v) ==
  /\ v.t = T.t
  /\ CASE T.t = "Bool" -> v.b \in BOOLEAN
       [] T.t \in IntTys -> Truncate(Width(T.t), v.i) = v.i
       [] T.t = "Float32" -> DOMAIN v.f32 = {"s", "e", "m"}
       [] T.t = "Float64" -> DOMAIN v.f64 = {"s", "e", "hi", "lo"}
       [] T.t = "Char" -> Len(v.c) = 1
       [] T.t = "String" -> Len(v.s) >= 0
       [] T.t = "List" -> v.ty = T /\ \A i \in 1..Len(v.vs) : Shaped(T.elem, v.vs[i])
       [] T.t = "Record" ->
            /\ v.ty = T
            /\ Len(v.vs) = Len(T.fields)
            /\ \A i \in 1..Len(T.fields) : Shaped(T.fields[i][2], v.vs[i])
       [] T.t = "Tuple" ->
            /\ v.ty = T
            /\ Len(v.vs) = Len(T.types)
            /\ \A i \in 1..Len(T.types) : Shaped(T.types[i], v.vs[i])
       [] T.t = "Variant" ->
            /\ v.ty = T
            /\ v.d \in 0..(Len(T.cases) - 1)
            /\ Len(v.p) = Len(T.cases[v.d + 1][2])
            /\ Len(v.p) = 1 => Shaped(T.cases[v.d + 1][2][1], v.p[1])
       [] T.t = "Enum" -> v.ty = T /\ v.d \in 0..(Len(T.names) - 1)
       [] T.t = "Union" ->
            /\ v.ty = T
            /\ v.d \in 0..(Len(T.types) - 1)
            /\ Len(v.p) = 1
            /\ Shaped(T.types[v.d + 1], v.p[1])
       [] T.t = "Option" -> v.ty = T /\ Len(v.p) <= 1 /\ (Len(v.p) = 1 => Shaped(T.elem, v.p[1]))
       [] T.t = "Result" ->
            /\ v.ty = T
            /\ v.d \in {0, 1}
            /\ Len(v.p) = Len(IF v.d = 1 THEN T.errty ELSE T.okty)
            /\ Len(v.p) = 1 => Shaped((IF v.d = 1 THEN T.errty ELSE T.okty)[1], v.p[1])
       [] T.t = "Flags" -> v.ty = T /\ DOMAIN v.fl = 1..Len(T.names)

\* What the decoder that produced res makes of a node nested in its input.
Nested(T, j) == IF res.by = "json_to_val" THEN json_to_val(T, j) ELSE deserialize(T, j)

\* Some component of the input that the decoder has to decode against a
\* component of ty fails to decode.
ComponentFails ==
  CASE ty.t = "List" /\ json.k = "arr" ->
         \E i \in 1..Len(json.a) : ~Nested(ty.elem, json.a[i]).ok
    [] ty.t = "Tuple" /\ json.k = "arr" /\ Len(json.a) = Len(ty.types) ->
         \E i \in 1..Len(json.a) : ~Nested(ty.types[i], json.a[i]).ok
    [] ty.t = "Record" /\ json.k = "obj" ->
         \E i \in 1..Len(json.o) : \E d \in 1..Len(ty.fields) :
           ty.fields[d][1] = json.o[i][1] /\ ~Nested(ty.fields[d][2], json.o[i][2]).ok
    [] ty.t = "Variant" /\ SingleEntry ->
         \E d \in 1..Len(ty.cases) :
           /\ ty.cases[d][1] = json.o[1][1]
           /\ Len(ty.cases[d][2]) = 1
           /\ ~Nested(ty.cases[d][2][1], json.o[1][2]).ok
    [] ty.t = "Union" /\ SingleEntry ->
         \E i \in 0..(Len(ty.types) - 1) :
           Denotes(json.o[1][1], i) /\ ~Nested(ty.types[i + 1], json.o[1][2]).ok
    [] ty.t = "Result" /\ SingleEntry /\ json.o[1][1] \in {"result", "error"} ->
         /\ Len(SideOf(ty, json.o[1][1])) = 1
         /\ ~Nested(SideOf(ty, json.o[1][1])[1], json.o[1][2]).ok
    [] ty.t = "Option" /\ json.k # "null" ->
         ~(IF res.by = "json_to_val" THEN json_to_val(ty.elem, json)
           ELSE deserialize_any(ty.elem, json)).ok
    [] OTHER -> FALSE

\* C13: every Val returned by json_to_val, by deserialize_val and by
\* default_val for a descriptor has exactly the shape the descriptor
\* determines, recursively; when a nested component of the input fails to
\* decode the whole decode is an error.
C13_ShapeValidity ==
  /\ (res.by # "none" /\ res.r.ok) => Shaped(ty, res.r.val)
  /\ ((TreeDecoded("json") \/ StreamDecoded("json")) /\ ComponentFails) => ~res.r.ok

C13_Witness ==
  /\ StreamDecoded("json")
  /\ ty = RecordXOptY
  /\ json = JObject(<< <<"x", JPosInt(Small(5))>> >>)
  /\ ~res.r.ok

\* The default the rules give for a descriptor: zero, false, NUL, empty,
\* the default of every field or slot, the first case, none, the ok branch.
RECURSIVE DefaultOf(_)
DefaultOf(T) ==
  CASE T.t = "Bool" -> [t |-> "Bool", b |-> FALSE]
    [] T.t \in IntTys -> [t |-> T.t, i |-> <<0, 0, 0, 0>>]
    [] T.t = "Float32" -> [t |-> "Float32", f32 |-> [s |-> 0, e |-> 0, m |-> 0]]
    [] T.t = "Float64" -> [t |-> "Float64", f64 |-> [s |-> 0, e |-> 0, hi |-> 0, lo |-> 0]]
    [] T.t = "Char" -> [t |-> "Char", c |-> NUL]
    [] T.t = "String" -> [t |-> "String", s |-> ""]
    [] T.t = "List" -> [t |-> "List", ty |-> T, vs |-> <<>>]
    [] T.t = "Flags" -> [t |-> "Flags", ty |-> T, fl |-> [b \in 1..Len(T.names) |-> FALSE]]
    [] T.t = "Record" ->
         [t |-> "Record", ty |-> T, vs |-> [i \in 1..Len(T.fields) |-> DefaultOf(T.fields[i][2])]]
    [] T.t = "Tuple" ->
         [t |-> "Tuple", ty |-> T, vs |-> [i \in 1..Len(T.types) |-> DefaultOf(T.types[i])]]
    [] T.t = "Enum" -> [t |-> "Enum", ty |-> T, d |-> 0]
    [] T.t = "Variant" ->
         [t |-> "Variant", ty |-> T, d |-> 0,
          p |-> IF Len(T.cases[1][2]) = 1 THEN <<DefaultOf(T.cases[1][2][1])>> ELSE <<>>]
    [] T.t = "Union" -> [t |-> "Union", ty |-> T, d |-> 0, p |-> <<DefaultOf(T.types[1])>>]
    [] T.t = "Option" -> [t |-> "Option", ty |-> T, p |-> <<>>]
    [] T.t = "Result" ->
         [t |-> "Result", ty |-> T, d |-> 0,
          p |-> IF Len(T.okty) = 1 THEN <<DefaultOf(T.okty[1])>> ELSE <<>>]

\* Every variant, enum and union of the descriptor declares a case.
RECURSIVE HasCases(_)
HasCases(T) ==
  CASE T.t = "List" \/ T.t = "Option" -> HasCases(T.elem)
    [] T.t = "Record" -> \A i \in 1..Len(T.fields) : HasCases(T.fields[i][2])
    [] T.t = "Tuple" -> \A i \in 1..Len(T.types) : HasCases(T.types[i])
    [] T.t = "Variant" ->
         /\ Len(T.cases) > 0
         /\ \A i \in 1..Len(T.cases) : Len(T.cases[i][2]) = 1 => HasCases(T.cases[i][2][1])
    [] T.t = "Enum" -> Len(T.names) > 0
    [] T.t = "Union" -> Len(T.types) > 0 /\ \A i \in 1..Len(T.types) : HasCases(T.types[i])
    [] T.t = "Result" ->
         /\ Len(T.okty) = 1 => HasCases(T.okty[1])
         /\ Len(T.errty) = 1 => HasCases(T.errty[1])
    [] OTHER -> TRUE

\* C14: for a descriptor whose variants, enums and unions each declare a
\* case, default_val succeeds with: zero for integers and floats, false, NUL,
\* the empty string, list and flags, the default of every field or slot in
\* declared order, the first declared case with the default of its payload
\* type if any, none, and the ok branch with the default of the ok type if
\* declared.
C14_DefaultValue ==
  (res.by = "default_val" /\ HasCases(ty)) => res.r = Ok(DefaultOf(ty))

C14_Witness ==
  /\ res.by = "default_val"
  /\ ty = TVariant(<< <<"ok", <<U32>> >>, <<"fail", <<String>> >> >>)
  /\ res.r = Ok([t |-> "Variant", ty |-> ty, d |-> 0, p |-> <<VInt("U32", Small(0))>>])

\* The integer x lies in the range of the integer type t: its two's
\* complement at the width of t reads back as x.
InRange(t, x) == MathOfInt(t, ToBits(t, x)) = x

\* C15: an integer token, delivered as a signed or as an unsigned 64-bit
\* value, decodes against an integer target exactly when it lies in the
\* range of the target, to the value equal to it; otherwise the error is an
\* invalid value and nothing wraps.
C15_IntegerNarrowing ==
  ((StreamDecoded("json") \/ res.by = "visit_i64") /\ ty.t \in IntTys /\ json.k = "int") =>
    LET v == MathOfJson(json)
    IN /\ res.r.ok <=> InRange(ty.t, v)
       /\ res.r.ok =>
            /\ res.r.val.t = ty.t
            /\ Truncate(Width(ty.t), res.r.val.i) = res.r.val.i
            /\ MathOfInt(ty.t, res.r.val.i) = v
       /\ ~res.r.ok => res.r.err.e = "invalid value"

C15_Witness ==
  /\ res.by = "visit_i64"
  /\ ty = TScalar("S8")
  /\ json = JPosInt(Small(128))
  /\ ~res.r.ok
  /\ res.r.err.e = "invalid value"

\* The standard base64 text of a sequence of bytes, padded with "=".
RECURSIVE B64Encode(_)
B64Encode(bytes) ==
  LET sym(n) == SubSeq(B64Alphabet, n + 1, n + 1)
      b1 == bytes[1]
      b2 == bytes[2]
      b3 == bytes[3]
  IN CASE Len(bytes) = 0 -> ""
       [] Len(bytes) = 1 -> sym(b1 \div 4) \o sym((b1 % 4) * 16) \o "=="
       [] Len(bytes) = 2 ->
            sym(b1 \div 4) \o sym((b1 % 4) * 16 + b2 \div 16) \o sym((b2 % 16) * 4) \o "="
       [] OTHER ->
            sym(b1 \div 4) \o sym((b1 % 4) * 16 + b2 \div 16)
              \o sym((b2 % 16) * 4 + b3 \div 64) \o sym(b3 % 64)
              \o B64Encode(SubSeq(bytes, 4, Len(bytes)))

\* The strings drawn that are standard base64.
DrawnBase64 == {"", "AQ==", "AQI=", "Infinity", "infinity"}

\* C16: the outcome of a string token is fixed by the target type: a Char
\* exactly when the string has one character; the String unchanged; an Enum
\* exactly when the string is a declared name; List(U8) exactly when the
\* string is standard base64, with the decoded bytes; for every other target
\* that is not an Option an invalid-type error.  json_to_val rejects a string
\* for List(U8).
C16_StringTokens ==
  /\ ((StreamDecoded("json") \/ res.by = "visit_string") /\ json.k = "str" /\ ty.t # "Option") =>
       CASE ty.t = "Char" ->
              /\ res.r.ok <=> Len(json.s) = 1
              /\ res.r.ok => res.r.val = [t |-> "Char", c |-> json.s]
         [] ty.t = "String" -> res.r = Ok([t |-> "String", s |-> json.s])
         [] ty.t = "Enum" ->
              /\ res.r.ok <=> \E d \in 1..Len(ty.names) : ty.names[d] = json.s
              /\ res.r.ok => res.r.val.ty = ty /\ ty.names[res.r.val.d + 1] = json.s
         [] ty.t = "List" /\ ty.elem.t = "U8" ->
              /\ res.r.ok <=> json.s \in DrawnBase64
              /\ res.r.ok =>
                   /\ Shaped(ty, res.r.val)
                   /\ B64Encode([i \in 1..Len(res.r.val.vs) |-> res.r.val.vs[i].i[4]]) = json.s
         [] OTHER -> ~res.r.ok /\ res.r.err.e = "invalid type"
  /\ (TreeDecoded("json") /\ json.k = "str" /\ ty.t = "List") => ~res.r.ok

C16_Witness ==
  /\ StreamDecoded("json")
  /\ ty = TList(U8)
  /\ json = JString("AQI=")
  /\ res.r = Ok([t |-> "List", ty |-> ty, vs |-> <<VInt("U8", Small(1)), VInt("U8", Small(2))>>])

\* Entry i of the input map has a key that is not a declared field, or one
\* that an earlier entry had.
Offending(i) ==
  \/ \A d \in 1..Len(ty.fields) : ty.fields[d][1] # json.o[i][1]
  \/ \E h \in 1..(i - 1) : json.o[h][1] = json.o[i][1]

\* The value of entry i decodes against the field its key names.
EntryDecodes(i) ==
  \E d \in 1..Len(ty.fields) :
    ty.fields[d][1] = json.o[i][1] /\ deserialize(ty.fields[d][2], json.o[i][2]).ok

\* C17: while the entries of a map are consumed for a Record, the first key
\* that is not a declared field or that repeats a consumed key fails the
\* decode with an error holding that key; no Val is produced whatever
\* entries follow.
C17_RecordKeys ==
  (StreamDecoded("json") /\ ty.t = "Record" /\ json.k = "obj") =>
    \A i \in 1..Len(json.o) :
      Offending(i) =>
        /\ ~res.r.ok
        /\ (\A h \in 1..(i - 1) : ~Offending(h) /\ EntryDecodes(h)) =>
             res.r = Err([e |-> "unknown or duplicate field", key |-> json.o[i][1]])

C17_Witness ==
  /\ StreamDecoded("json")
  /\ ty = RecordXY
  /\ json = JObject(<< <<"x", JPosInt(Small(5))>>, <<"x", JPosInt(Small(5))>> >>)
  /\ res.r = Err([e |-> "unknown or duplicate field", key |-> "x"])

\* C18: for a Variant, Union or Result descriptor and a map of zero, one or
\* several entries, deserialize_val and json_to_val give the same outcome:
\* both fail or both return the same Val, also when the selected case or
\* side declares no payload and the entry's value is not null.
C18_StreamEqualsTree ==
  (StreamDecoded("json") /\ ty.t \in {"Variant", "Union", "Result"} /\ json.k = "obj") =>
    LET tree == json_to_val(ty, json)
    IN /\ res.r.ok <=> tree.ok
       /\ res.r.ok => res.r = tree

\* The function a request names, and whether the call got as far as its
\* results: the function exists and every argument was decoded.
Called == resp.kind \in {"response", "panic"} /\ req.body

Callee == Interface[find_function(Interface, req.name)]

ArgsDecoded ==
  /\ find_function(Interface, req.name) # 0
  /\ arg_vals(Callee.params, req.args, 1).ok

\* The body the wire convention gives a function's results: {} for none,
\* {"result": v} for one that is no Result, the Result's own single-key
\* object for one that is, {"results": [..]} for two or more.
WireConvention(results, body) ==
  /\ body.k = "obj"
  /\ CASE Len(results.tys) = 0 -> body.o = <<>>
       [] Len(results.tys) = 1 /\ results.tys[1] = "U32" ->
            /\ Len(body.o) = 1
            /\ body.o[1][1] = "result"
            /\ \E v \in {w.val[1] : w \in {x \in Invocations : x.ok}} :
                 body.o[1][2] = val_to_json(v)
       [] Len(results.tys) = 1 ->
            /\ Len(body.o) = 1
            /\ body.o[1][1] \in {"result", "error"}
       [] OTHER ->
            /\ Len(body.o) = 1
            /\ body.o[1][1] = "results"
            /\ body.o[1][2].k = "arr"
            /\ Len(body.o[1][2].a) = Len(results.tys)

\* C19: a call whose arguments were decoded and that does not end in an
\* error status answers with the body of the wire convention: an empty
\* object for zero results, {"result": v} for one result that is no Result,
\* the Result's own object for one that is, {"results": [..]} for two or more.
C19_WireConvention ==
  (Called /\ ArgsDecoded /\ ~(resp.kind = "response" /\ resp.status # 200)) =>
    /\ resp.kind = "response"
    /\ WireConvention(Callee.results, resp.body)

\* The part of the convention the handler implements: one u32 result.
SingleU32Convention ==
  (Called /\ ArgsDecoded /\ Callee.results = Anon("U32")
     /\ ~(resp.kind = "response" /\ resp.status # 200)) =>
    /\ resp.kind = "response"
    /\ WireConvention(Callee.results, resp.body)

\* An argument failed to decode: the loop over the parameters ended in the
\* error of deserialize_arg.
ArgDecodeFailed ==
  /\ find_function(Interface, req.name) # 0
  /\ ~arg_vals(Callee.params, req.args, 1).ok
  /\ arg_vals(Callee.params, req.args, 1).err.e \in {"invalid type", "invalid value"}

\* The status a failing operation or runtime is answered with.
InvokerFailureStatus ==
  {into_response(call(Interface, [body |-> TRUE, name |-> "next-id", args |-> <<>>], f)).status :
     f \in {x \in Invocations : ~x.ok}}

\* C20: a call in which an argument fails to decode is answered with a
\* client-error status (4xx), and never with the status a failure of the
\* invoked operation or of the runtime is answered with.
C20_DecodeFailureIsClientError ==
  (Called /\ ArgDecodeFailed) =>
    /\ resp.kind = "response"
    /\ resp.status \in 400..499
    /\ resp.status \notin InvokerFailureStatus

\* The Val a float token denotes for a float target: the token's value in
\* the width of the target, every NaN as the canonical NaN of that width.
FloatOfToken(t) ==
  LET nan == IF res.by = "visit_f32" THEN f32_is_nan(res.f32) ELSE f64_is_nan(res.f64)
  IN CASE t = "Float32" ->
            VFloat32(IF nan THEN F32_NAN
                     ELSE IF res.by = "visit_f32" THEN res.f32 ELSE f64_to_f32(res.f64))
       [] t = "Float64" ->
            VFloat64(IF nan THEN F64_NAN
                     ELSE IF res.by = "visit_f32" THEN f32_to_f64(res.f32) ELSE res.f64)

\* C21: a float token of either width decodes against a Float32 or Float64
\* target to the float of the token, a NaN of any bit pattern to the
\* canonical NaN of the target's width; against a target that is no float
\* (and no Option) it is an invalid-type error.
C21_FloatTokens ==
  res.by \in {"visit_f32", "visit_f64"} =>
    /\ ty.t \in {"Float32", "Float64"} => res.r = Ok(FloatOfToken(ty.t))
    /\ ty.t \notin {"Float32", "Float64", "Option"} =>
         ~res.r.ok /\ res.r.err.e = "invalid type"

\* The same, leaving out the 64-bit token against a Float32 target.
FloatTokensButF64ToF32 ==
  (res.by \in {"visit_f32", "visit_f64"} /\ ~(res.by = "visit_f64" /\ ty.t = "Float32")) =>
    /\ ty.t \in {"Float32", "Float64"} => res.r = Ok(FloatOfToken(ty.t))
    /\ ty.t \notin {"Float32", "Float64", "Option"} =>
         ~res.r.ok /\ res.r.err.e = "invalid type"

\* An f32 below 2^24 in magnitude that is a whole number, and that number.
IsIntegralF32(f) ==
  \/ f.e = 0 /\ f.m = 0
  \/ f.e \in 127..150 /\ (2^23 + f.m) % 2^(150 - f.e) = 0

IntegerOfF32(f) ==
  IF f.e = 0 THEN Math(FALSE, <<0, 0, 0, 0>>)
  ELSE LET n == (2^23 + f.m) \div 2^(150 - f.e)
       IN Math(f.s = 1, <<0, 0, n \div 65536, n % 65536>>)

\* An f64 below 2^32 in magnitude that is a whole number, and that number.
IsIntegralF64(f) ==
  \/ f.e = 0 /\ f.hi = 0 /\ f.lo = 0
  \/ f.e \in 1023..1046 /\ f.lo = 0 /\ (2^23 + f.hi) % 2^(1046 - f.e) = 0
  \/ f.e \in 1047..1054 /\ f.lo % 2^(1075 - f.e) = 0

IntegerOfF64(f) ==
  IF f.e = 0 THEN Math(FALSE, <<0, 0, 0, 0>>)
  ELSE IF f.e <= 1046
    THEN LET n == (2^23 + f.hi) \div 2^(1046 - f.e)
         IN Math(f.s = 1, <<0, 0, n \div 65536, n % 65536>>)
    ELSE LET up == 2^(f.e - 1046)
             low == ((2^23 + f.hi) % 65536) * up + f.lo \div 2^(1075 - f.e)
         IN Math(f.s = 1, <<0, 0, ((2^23 + f.hi) \div 65536) * up + low \div 65536, low % 65536>>)

\* C22: an integer token, signed or unsigned, decodes against Float32
\* exactly when -32768 <= v <= 32767 and against Float64 exactly when
\* -2147483648 <= v <= 2147483647, to the float equal to v; outside the
\* range the decode is an invalid-value error and nothing is converted.
C22_IntegerToFloat ==
  ((StreamDecoded("json") \/ res.by = "visit_i64")
     /\ ty.t \in {"Float32", "Float64"} /\ json.k = "int") =>
    LET v == MathOfJson(json)
    IN /\ res.r.ok <=> InRange(IF ty.t = "Float32" THEN "S16" ELSE "S32", v)
       /\ res.r.ok =>
            /\ res.r.val.t = ty.t
            /\ ty.t = "Float32" =>
                 IsIntegralF32(res.r.val.f32) /\ IntegerOfF32(res.r.val.f32) = v
            /\ ty.t = "Float64" =>
                 IsIntegralF64(res.r.val.f64) /\ IntegerOfF64(res.r.val.f64) = v
       /\ ~res.r.ok => res.r.err.e = "invalid value"

\* 2147483647 is accepted for Float64.
C22_Witness ==
  /\ StreamDecoded("json")
  /\ ty = Float64
  /\ json = JPosInt(<<0, 0, 32767, 65535>>)
  /\ res.r = Ok(VFloat64([s |-> 0, e |-> 1053, hi |-> 2^23 - 1, lo |-> 2^29 - 2^22]))

\* The keys of the input map are the declared fields, each exactly once.
KeysComplete ==
  /\ Len(json.o) = Len(ty.fields)
  /\ \A d \in 1..Len(ty.fields) : \E i \in 1..Len(json.o) : json.o[i][1] = ty.fields[d][1]

\* C23: a streaming Record decode succeeds only when the keys hold every
\* declared field exactly once, in any order (and then exactly when every
\* value decodes); the record holds the decoded values in declared order
\* whatever the order of arrival; a map that omits a declared field fails,
\* also when the field is an Option.
C23_RecordComplete ==
  (StreamDecoded("json") /\ ty.t = "Record" /\ json.k = "obj") =>
    /\ res.r.ok => KeysComplete
    /\ res.r.ok <=> (KeysComplete /\ \A i \in 1..Len(json.o) : EntryDecodes(i))
    /\ res.r.ok =>
         /\ res.r.val.t = "Record"
         /\ Len(res.r.val.vs) = Len(ty.fields)
         /\ \A d \in 1..Len(ty.fields) :
              Ok(res.r.val.vs[d]) = deserialize(ty.fields[d][2], AtName(json.o, ty.fields[d][1]))

\* The fields arrive in the reverse of the declared order.
C23_Witness ==
  /\ StreamDecoded("json")
  /\ ty = RecordXOptY
  /\ json = JObject(<< <<"y", JNull>>, <<"x", JPosInt(Small(5))>> >>)
  /\ res.r.ok
  /\ res.r.val.vs = <<VInt("U32", Small(5)), [t |-> "Option", ty |-> TOption(U32), p |-> <<>>]>>

\* An Option field is left out.
C23_WitnessOmitted ==
  /\ StreamDecoded("json")
  /\ ty = RecordXOptY
  /\ json = JObject(<< <<"x", JPosInt(Small(5))>> >>)
  /\ ~res.r.ok

\* The descriptor at position i of a List or Tuple.
SlotType(T, i) == IF T.t = "List" THEN T.elem ELSE T.types[i]

\* The node at position i of the input decoded on its own: a Result as the
\* top level decodes it (deserialize_val), anything else by the seed.
PositionAlone(i) ==
  IF SlotType(ty, i).t = "Result" THEN deserialize_val(SlotType(ty, i), Source(res.of).a[i])
  ELSE deserialize(SlotType(ty, i), Source(res.of).a[i])

\* ty is a List of Result, or a Tuple with a Result slot, given an array of
\* the right length.
HoldsResults ==
  /\ res.by = "deserialize_val"
  /\ Source(res.of).k = "arr"
  /\ \/ ty.t = "List" /\ ty.elem.t = "Result"
     \/ /\ ty.t = "Tuple"
        /\ Len(Source(res.of).a) = Len(ty.types)
        /\ \E i \in 1..Len(ty.types) : ty.types[i].t = "Result"

\* C24: a Result in a nested position (a list element, a tuple slot) is
\* decoded as deserialize_val decodes it at the top level: the container
\* decodes exactly when each position does, and holds at a Result position
\* the ok or err branch the top level yields for the same map.
C24_ResultAnyPosition ==
  HoldsResults =>
    LET n == Len(Source(res.of).a)
    IN /\ res.r.ok <=> \A i \in 1..n : PositionAlone(i).ok
       /\ res.r.ok => \A i \in 1..n : res.r.val.vs[i] = PositionAlone(i).val

\* What the code does: a container with a Result position and at least one
\* element never decodes.
NestedResultFails ==
  (HoldsResults /\ ty.t = "List" /\ Len(Source(res.of).a) > 0) => ~res.r.ok

=============================================================================
